---- MODULE Spec2Model ----
(***************************************************************************)
(* A model of mmqlint: the profile registry (profiles.py) and the JSONL    *)
(* passes of core.py (lint_jsonl, fix_jsonl).                              *)
(*                                                                         *)
(* JSON values are tagged records: [t |-> "str", v |-> s], [t |-> "null"], *)
(* [t |-> "num"], [t |-> "list", v |-> <<..>>], [t |-> "dict", v |-> f]    *)
(* with f a function from key names to JSON values.  A string is a         *)
(* sequence of symbols; a symbol is a whitespace character (" ", "\n") or  *)
(* a run of non-whitespace characters ("system", "a"), so that trimming    *)
(* and joining are computed and not assumed.  Python's None is JSON null.  *)
(***************************************************************************)
EXTENDS Integers, Sequences, FiniteSets, TLC

VARIABLES
    \* load_profiles
    loadPc,        \* "idle" | "merging" | "returned" | "raised"
    profs,         \* the local dict `profs` of load_profiles
    entries,       \* the override entries processed so far, in file order
    registry,      \* the dict load_profiles returned (meaningful when loadPc = "returned")
    lastProfile,   \* the Profile value constructed last (Profile(**merged) or Profile(...))
    lastValidate,  \* outcome of the last validate() call on lastProfile
    builtinTable,  \* the module-level dict DEFAULT_PROFILES
    \* lint_jsonl
    lintCfg,       \* [mode, profile_obj, strict_typed]: the arguments of the pass
    lintPc,        \* "running" | "returned" | "raised"
    line_no,       \* number of the line processed last
    line,          \* the line processed last
    issues,        \* the list `issues` of the pass
    \* verify_system_visibility_jsonl
    verCfg,        \* [profile_obj, strict_typed, renderer]: the arguments and the plugin
    verPc,         \* "running" | "returned" | "raised"
    verLineNo,     \* number of the line processed last
    verLine,       \* the line processed last
    verIssues,     \* the list `issues` of the pass
    renderCalls,   \* calls of render_fn made for the line processed last
    \* fix_jsonl, run once and then once more on its own output
    fixCfg,        \* [strict_typed]
    fixPc,         \* "first" | "second" | "done" | "raised" | "raised again"
    fixIn,         \* the input file: a sequence of lines
    fixPos,        \* lines of the current run's input consumed so far
    fixOut,        \* the output file of the first run
    fixIssues,     \* the issue list of the first run
    fixOut2,       \* the output file of the second run
    fixIssues2,    \* the issue list of the second run
    \* should_fail
    sfPc,          \* "building" | "returned"
    sfIssues,      \* the argument `issues`
    sfFailOn,      \* the argument `fail_on`
    sfResult,      \* the value returned
    \* check_dataset_on_disk
    dsCfg,         \* the arguments, and the schema and split names of the dataset
    dsPc,          \* "start" | "running" | "split done" | "returned"
    ds,            \* the splits read so far, each [name, rows]; the last is being read
    seen_sizes,    \* the dict `seen_sizes`, in insertion order: <<size, count>> pairs
    dsIssues,      \* the list `issues` of the pass
    \* the commands check, verify-system and check-dataset of the CLI
    cliCmd,        \* "none" | "check" | "verify-system" | "check-dataset"
    cliPc,         \* "idle" | "running" | "exited"
    cliFailOn,     \* the option --fail-on
    cliFix,        \* the option --fix of check
    exitCode,      \* the exit status of the process (meaningful when cliPc = "exited")
    \* tests/dataset_checks.py: lint_dataset_on_disk
    strictCfg,     \* [importable]: whether `datasets` imports
    strictPc,      \* "start" | "running" | "returned"
    strictRows,    \* the rows read so far
    strictIssues,  \* the list `issues` of the pass
    \* _validate_messages_schema with strict_typed, called on its own
    schemaPc,      \* "building" | "returned"
    schemaMsgs,    \* the argument `messages`
    schemaIssues   \* the list returned

profileVars == <<loadPc, profs, entries, registry, lastProfile, lastValidate, builtinTable>>
lintVars == <<lintCfg, lintPc, line_no, line, issues>>
verVars == <<verCfg, verPc, verLineNo, verLine, verIssues, renderCalls>>
fixVars == <<fixCfg, fixPc, fixIn, fixPos, fixOut, fixIssues, fixOut2, fixIssues2>>
sfVars == <<sfPc, sfIssues, sfFailOn, sfResult>>
dsVars == <<dsCfg, dsPc, ds, seen_sizes, dsIssues>>
cliVars == <<cliCmd, cliPc, cliFailOn, cliFix, exitCode>>
strictVars == <<strictCfg, strictPc, strictRows, strictIssues>>
schemaVars == <<schemaPc, schemaMsgs, schemaIssues>>
vars == <<profileVars, lintVars, verVars, fixVars, sfVars, dsVars, cliVars, strictVars,
          schemaVars>>

\* What the actions of one part leave alone.
nonProfileVars == <<lintVars, verVars, fixVars, sfVars, dsVars, cliVars, strictVars, schemaVars>>
nonLintVars == <<profileVars, verVars, fixVars, sfVars, dsVars, cliVars, strictVars, schemaVars>>
nonVerVars == <<profileVars, lintVars, fixVars, sfVars, dsVars, cliVars, strictVars, schemaVars>>
nonFixVars == <<profileVars, lintVars, verVars, sfVars, dsVars, cliVars, strictVars, schemaVars>>
nonSfVars == <<profileVars, lintVars, verVars, fixVars, dsVars, cliVars, strictVars, schemaVars>>
nonDsVars == <<profileVars, lintVars, verVars, fixVars, sfVars, cliVars, strictVars, schemaVars>>
nonCliVars == <<profileVars, lintVars, verVars, fixVars, sfVars, dsVars, strictVars, schemaVars>>
nonStrictVars == <<profileVars, lintVars, verVars, fixVars, sfVars, dsVars, cliVars, schemaVars>>
nonSchemaVars == <<profileVars, lintVars, verVars, fixVars, sfVars, dsVars, cliVars, strictVars>>

----------------------------------------------------------------------------
(* Bounds *)

\* Override entries in one profile file.
MaxEntries == 2
\* Messages in one record.
MaxMsgs == 2
\* Lines in one JSONL file.
MaxLines == 2
\* Issues in the list handed to should_fail.
MaxIssues == 3
\* Rows in one dataset, all splits together.
MaxRows == 2
\* Rows in one dataset whose rows only carry a size.
MaxSizeRows == 6
\* Rows in the dataset lint_dataset_on_disk reads.
MaxStrictRows == 1
\* Elements in the content list _validate_messages_schema is given.
MaxElems == 2

----------------------------------------------------------------------------
(* JSON values *)

JStr(s) == [t |-> "str", v |-> s]
JNull == [t |-> "null"]
JNum == [t |-> "num"]
JBool == [t |-> "bool"]
JList(xs) == [t |-> "list", v |-> xs]
JDict(d) == [t |-> "dict", v |-> d]
\* A one-symbol string such as "system".
Word(w) == JStr(<<w>>)

IsStr(x) == x.t = "str"
IsList(x) == x.t = "list"
IsDict(x) == x.t = "dict"

\* dict.get(k): the value, or None when the key is absent.
Get(x, k) == IF k \in DOMAIN x.v THEN x.v[k] ELSE JNull
HasKey(x, k) == k \in DOMAIN x.v
\* d[k] = val on a dict.
SetKey(x, k, val) == JDict([kk \in (DOMAIN x.v) \cup {k} |-> IF kk = k THEN val ELSE x.v[kk]])

Whitespace == {" ", "\n"}

RECURSIVE LStrip(_)
LStrip(s) == IF s # <<>> /\ Head(s) \in Whitespace THEN LStrip(Tail(s)) ELSE s

RECURSIVE RStrip(_)
RStrip(s) ==
    IF s # <<>> /\ s[Len(s)] \in Whitespace THEN RStrip(SubSeq(s, 1, Len(s) - 1)) ELSE s

\* str.strip()
Strip(s) == RStrip(LStrip(s))

\* "\n".join(parts)
RECURSIVE JoinNL(_)
JoinNL(parts) ==
    IF parts = <<>> THEN <<>>
    ELSE IF Len(parts) = 1 THEN parts[1]
    ELSE parts[1] \o <<"\n">> \o JoinNL(Tail(parts))

----------------------------------------------------------------------------
(* profiles.py *)

Profile(name, rs, sv, fo, lv) ==
    [name |-> name, require_system |-> rs, system_visible |-> sv,
     fold_system_into_user |-> fo, system_invisible_level |-> lv]

\* Profile(name=name): the dataclass defaults.
DefaultProfile(name) == Profile(name, TRUE, TRUE, FALSE, "ERROR")

BuiltinNames == {"generic", "my-vlm", "qwen3-vl"}

DEFAULT_PROFILES == [n \in BuiltinNames |-> Profile(n, TRUE, TRUE, FALSE, "ERROR")]

NoProfile == [none |-> TRUE]

\* Profile.validate with the require/visible check left out.
ValidateNoVisible(p) ==
    IF p.system_invisible_level \notin {"WARN", "ERROR"} THEN "ValueError: level"
    ELSE IF p.require_system /\ p.fold_system_into_user THEN "ValueError: fold"
    ELSE IF p.fold_system_into_user /\ p.system_visible THEN "ValueError: conflict"
    ELSE "ok"

\* Profile.validate with the fold/visible and the require/fold checks left out.
ValidateLax(p) ==
    IF p.system_invisible_level \notin {"WARN", "ERROR"} THEN "ValueError: level"
    ELSE IF p.require_system /\ ~p.system_visible THEN "ValueError: visible"
    ELSE "ok"

\* Profile.validate: "ok", or the ValueError it raises.
Validate(p) ==
    IF p.system_invisible_level \notin {"WARN", "ERROR"} THEN "ValueError: level"
    ELSE IF p.require_system /\ ~p.system_visible THEN "ValueError: visible"
    ELSE IF p.require_system /\ p.fold_system_into_user THEN "ValueError: fold"
    ELSE IF p.fold_system_into_user /\ p.system_visible THEN "ValueError: conflict"
    ELSE "ok"

\* Names an override file may use: two built-ins and a new one.
OverrideNames == {"generic", "qwen3-vl", "new"}

FieldNames == {"require_system", "system_visible", "fold_system_into_user",
               "system_invisible_level"}

FullCfgs == [require_system: BOOLEAN, system_visible: BOOLEAN,
             fold_system_into_user: BOOLEAN,
             system_invisible_level: {"ERROR", "WARN", "INFO"}]

\* The mappings an override entry may hold: any subset of the fields.
Cfgs == {[k \in D |-> f[k]] : f \in FullCfgs, D \in SUBSET FieldNames}

\* An entry of raw.items(): a name with a mapping of fields, or with something else.
Entries == {[name |-> n, mapping |-> TRUE, cfg |-> c] : n \in OverrideNames, c \in Cfgs}
           \cup {[name |-> n, mapping |-> FALSE, cfg |-> <<>>] : n \in OverrideNames}

\* cfg.get(k, profs.get(name, Profile(name=name)).k)
MergedField(ps, name, cfg, k) ==
    IF k \in DOMAIN cfg THEN cfg[k]
    ELSE (IF name \in DOMAIN ps THEN ps[name] ELSE DefaultProfile(name))[k]

\* Profile(**merged)
Merged(ps, name, cfg) ==
    Profile(name,
            MergedField(ps, name, cfg, "require_system"),
            MergedField(ps, name, cfg, "system_visible"),
            MergedField(ps, name, cfg, "fold_system_into_user"),
            MergedField(ps, name, cfg, "system_invisible_level"))

AllValidate(ps) == \A n \in DOMAIN ps : Validate(ps[n]) = "ok"

NoRegistry == [n \in {} |-> NoProfile]

\* profs[name] = p reaching the module-level table: `profs` taken as the
\* table itself and not as a copy of it.
TableAliased(table, name, p) ==
    [n \in (DOMAIN table) \cup {name} |-> IF n = name THEN p ELSE table[n]]

\* The module-level table after `profs[name] = p`: `profs` is dict(DEFAULT_PROFILES),
\* a copy, and Profile is frozen, so the table is as it was.
TableAfterStore(table, name, p) == table

ProfileInit ==
    /\ loadPc = "idle"
    /\ builtinTable = DEFAULT_PROFILES
    /\ profs = builtinTable
    /\ entries = <<>>
    /\ registry = NoRegistry
    /\ lastProfile = NoProfile
    /\ lastValidate = "not called"

\* load_profiles(None): validate the defaults and return them.
LoadDefaults ==
    /\ loadPc = "idle"
    /\ IF AllValidate(profs)
       THEN loadPc' = "returned" /\ registry' = profs
       ELSE loadPc' = "raised" /\ UNCHANGED registry
    /\ UNCHANGED <<profs, entries, lastProfile, lastValidate, builtinTable, nonProfileVars>>

\* load_profiles(file) up to the loop: the file is read and `raw` is taken from it.
\* shape: "ok", or a file that is neither .yaml/.yml nor .json, or one whose
\* `profiles` value is no mapping.
LoadOpen(shape) ==
    /\ loadPc = "idle"
    /\ loadPc' = IF shape = "ok" THEN "merging" ELSE "raised"
    /\ UNCHANGED <<profs, entries, registry, lastProfile, lastValidate, builtinTable, nonProfileVars>>

\* One iteration of `for name, cfg in raw.items()`.
MergeEntry(e) ==
    /\ loadPc = "merging"
    /\ Len(entries) < MaxEntries
    /\ \A i \in 1..Len(entries) : entries[i].name # e.name
    /\ entries' = Append(entries, e)
    /\ IF ~e.mapping
       THEN /\ loadPc' = "raised"
            /\ UNCHANGED <<profs, lastProfile, lastValidate, builtinTable>>
       ELSE LET p == Merged(profs, e.name, e.cfg) IN
            /\ lastProfile' = p
            /\ lastValidate' = Validate(p)
            /\ IF Validate(p) = "ok"
               THEN /\ profs' = [n \in (DOMAIN profs) \cup {e.name} |->
                                    IF n = e.name THEN p ELSE profs[n]]
                    /\ builtinTable' = TableAfterStore(builtinTable, e.name, p)
                    /\ UNCHANGED loadPc
               ELSE /\ loadPc' = "raised"
                    /\ UNCHANGED <<profs, builtinTable>>
    /\ UNCHANGED <<registry, nonProfileVars>>

\* After the loop: validate all, return.
LoadFinish ==
    /\ loadPc = "merging"
    /\ IF AllValidate(profs)
       THEN loadPc' = "returned" /\ registry' = profs
       ELSE loadPc' = "raised" /\ UNCHANGED registry
    /\ UNCHANGED <<profs, entries, lastProfile, lastValidate, builtinTable, nonProfileVars>>

\* Profile(name=..., ...) called directly: the dataclass constructor.
ConstructProfile(p) ==
    /\ loadPc = "idle"
    /\ lastProfile' = p
    /\ lastValidate' = "not called"
    /\ UNCHANGED <<loadPc, profs, entries, registry, builtinTable, nonProfileVars>>

\* p.validate() on the profile constructed last.
ValidateProfile ==
    /\ loadPc = "idle"
    /\ lastProfile # NoProfile
    /\ lastValidate = "not called"
    /\ lastValidate' = Validate(lastProfile)
    /\ UNCHANGED <<loadPc, profs, entries, registry, lastProfile, builtinTable, nonProfileVars>>

\* The Profile values a caller may construct.
Profiles == {Profile("new", f.require_system, f.system_visible, f.fold_system_into_user,
                     f.system_invisible_level) : f \in FullCfgs}

ProfileNext ==
    \/ LoadDefaults
    \/ \E shape \in {"ok", "bad extension", "not a mapping"} : LoadOpen(shape)
    \/ \E e \in Entries : MergeEntry(e)
    \/ LoadFinish
    \/ \E p \in Profiles : ConstructProfile(p)
    \/ ValidateProfile

----------------------------------------------------------------------------
(* core.py: the issue model *)

LEVEL_ORDER == [INFO |-> 0, WARN |-> 1, ERROR |-> 2]

\* _issue: an unknown level becomes ERROR.  The human-readable `message` of an
\* Issue is fixed text per code and is left out.
Issue(level, code, ln, sample_id, path) ==
    [level |-> IF level \in DOMAIN LEVEL_ORDER THEN level ELSE "ERROR",
     code |-> code, line |-> ln, sample_id |-> sample_id, path |-> path]

\* Strings whose letters matter are sequences of characters.
Chars(w) ==
    CASE w = "ERROR" -> <<"E", "R", "R", "O", "R">>
      [] w = "WARN" -> <<"W", "A", "R", "N">>
      [] w = "INFO" -> <<"I", "N", "F", "O">>
      [] w = "error" -> <<"e", "r", "r", "o", "r">>
      [] w = "Warn" -> <<"W", "a", "r", "n">>
      [] w = "info" -> <<"i", "n", "f", "o">>
      [] w = "warning" -> <<"w", "a", "r", "n", "i", "n", "g">>
      [] w = "x0" -> <<"x", "0">>
      [] w = "y0" -> <<"y", "0">>
      [] w = "x1" -> <<"x", "1">>
      [] w = "y1" -> <<"y", "1">>
      [] w = "CX" -> <<"C", "X">>
      [] w = "score" -> <<"s", "c", "o", "r", "e">>
      [] OTHER -> <<>>

LowerCase == [A |-> "a", C |-> "c", E |-> "e", F |-> "f", G |-> "g", I |-> "i", N |-> "n",
              O |-> "o", R |-> "r", W |-> "w", X |-> "x"]

\* str.upper() of one character.
UpperChar(c) ==
    IF \E u \in DOMAIN LowerCase : LowerCase[u] = c
    THEN CHOOSE u \in DOMAIN LowerCase : LowerCase[u] = c
    ELSE c

\* str.upper()
Upper(s) == [i \in 1..Len(s) |-> UpperChar(s[i])]

\* _LEVEL_ORDER.get(name, 2) on a name given by its characters.
LevelOrderGet(name) ==
    IF \E l \in DOMAIN LEVEL_ORDER : Chars(l) = name
    THEN LEVEL_ORDER[CHOOSE l \in DOMAIN LEVEL_ORDER : Chars(l) = name]
    ELSE 2

\* _LEVEL_ORDER.get(i.level, 2)
IssueRank(i) == IF i.level \in DOMAIN LEVEL_ORDER THEN LEVEL_ORDER[i.level] ELSE 2

\* should_fail comparing with `>` instead of `>=`.
ShouldFailAbove(iss, fail_on) ==
    LET thr == LevelOrderGet(Upper(IF fail_on = <<>> THEN Chars("ERROR") ELSE fail_on))
    IN \E k \in 1..Len(iss) : IssueRank(iss[k]) > thr

\* should_fail.  fail_on is a string given by its characters; <<>> stands for
\* the empty string and for None, which `fail_on or "ERROR"` treats alike.
ShouldFail(iss, fail_on) ==
    LET thr == LevelOrderGet(Upper(IF fail_on = <<>> THEN Chars("ERROR") ELSE fail_on))
    IN \E k \in 1..Len(iss) : IssueRank(iss[k]) >= thr

\* The threshold names a caller passes.
Thresholds == {<<>>, Chars("ERROR"), Chars("WARN"), Chars("INFO"), Chars("error"),
               Chars("Warn"), Chars("info"), Chars("warning")}

\* The levels of the issues of a list: those _issue produces and, for an Issue
\* constructed directly, two strings that are no level.
IssueLevels == {"INFO", "WARN", "ERROR", "FATAL", "info"}

SfInit ==
    /\ sfPc = "building"
    /\ sfIssues = <<>>
    /\ sfFailOn \in Thresholds
    /\ sfResult = FALSE

\* The caller appends an issue to the list it will hand over.
SfAppend(level) ==
    /\ sfPc = "building"
    /\ Len(sfIssues) < MaxIssues
    /\ sfIssues' = Append(sfIssues, [level |-> level, code |-> "code", line |-> Len(sfIssues) + 1,
                                     sample_id |-> "id", path |-> "$"])
    /\ UNCHANGED <<sfPc, sfFailOn, sfResult, nonSfVars>>

\* should_fail(issues, fail_on)
SfCall ==
    /\ sfPc = "building"
    /\ sfPc' = "returned"
    /\ sfResult' = ShouldFail(sfIssues, sfFailOn)
    /\ UNCHANGED <<sfIssues, sfFailOn, nonSfVars>>

SfIdle ==
    /\ sfPc = "returned"
    /\ sfIssues = <<>>
    /\ sfFailOn = <<>>
    /\ sfResult = FALSE

----------------------------------------------------------------------------
(* core.py: schema and policy checks of one record *)

ALLOWED_ROLES == {Word("system"), Word("user"), Word("assistant"), Word("tool")}

\* Python truthiness of a JSON value (`if not t`).
Falsy(x) ==
    \/ x.t = "null"
    \/ x.t \in {"str", "list"} /\ x.v = <<>>
    \/ x.t = "dict" /\ DOMAIN x.v = {}

\* _is_blank_text on a str.
IsBlankText(s) == Strip(s) = <<>>

IsTextItem(it) == IsDict(it) /\ Get(it, "type") = Word("text") /\ IsStr(Get(it, "text"))
TextOf(it) == it.v["text"].v

\* [it["text"] for it in content if it is a text item]
RECURSIVE ItemTexts(_)
ItemTexts(items) ==
    IF items = <<>> THEN <<>>
    ELSE (IF IsTextItem(Head(items)) THEN <<TextOf(Head(items))>> ELSE <<>>)
         \o ItemTexts(Tail(items))

\* _typed_text_of_content
TypedTextOfContent(content) ==
    IF IsStr(content) THEN content.v
    ELSE IF IsDict(content) THEN (IF IsTextItem(content) THEN TextOf(content) ELSE <<>>)
    ELSE IF IsList(content) THEN JoinNL(ItemTexts(content.v))
    ELSE <<>>

MsgPath(mi) == "messages[" \o ToString(mi) \o "]"

\* The strict-typed checks of one content item (ci counts from 0).
ItemIssues(it, base, ci, ln, sid) ==
    LET p == base \o ".content[" \o ToString(ci) \o "]" IN
    IF ~IsDict(it) THEN <<Issue("ERROR", "E003_SCHEMA_MISMATCH", ln, sid, p)>>
    ELSE IF Falsy(Get(it, "type")) THEN <<Issue("ERROR", "E003_SCHEMA_MISMATCH", ln, sid, p)>>
    ELSE IF Get(it, "type") = Word("text")
         THEN (IF ~IsStr(Get(it, "text"))
               THEN <<Issue("ERROR", "E012_BAD_FIELD_TYPE", ln, sid, p \o ".text")>>
               ELSE <<>>)
    ELSE IF Get(it, "type") = Word("image")
         THEN (IF ~HasKey(it, "image")
               THEN <<Issue("ERROR", "E011_MISSING_TYPE_FIELDS", ln, sid, p)>>
               ELSE <<>>)
    ELSE <<>>

RECURSIVE ContentIssues(_, _, _, _, _)
ContentIssues(items, base, ci, ln, sid) ==
    IF ci >= Len(items) THEN <<>>
    ELSE ItemIssues(items[ci + 1], base, ci, ln, sid)
         \o ContentIssues(items, base, ci + 1, ln, sid)

\* The body of `for mi, m in enumerate(messages)` (mi counts from 0).
MessageIssues(m, mi, ln, sid, strict_typed) ==
    LET base == MsgPath(mi) IN
    IF ~IsDict(m) THEN <<Issue("ERROR", "E003_SCHEMA_MISMATCH", ln, sid, base)>>
    ELSE
      (IF Get(m, "role") \notin ALLOWED_ROLES
       THEN <<Issue("ERROR", "E003_SCHEMA_MISMATCH", ln, sid, base \o ".role")>>
       ELSE <<>>)
      \o
      (IF ~HasKey(m, "content")
       THEN <<Issue("ERROR", "E003_SCHEMA_MISMATCH", ln, sid, base \o ".content")>>
       ELSE LET content == Get(m, "content") IN
            IF strict_typed
            THEN (IF ~IsList(content)
                  THEN <<Issue("ERROR", "E003_SCHEMA_MISMATCH", ln, sid, base \o ".content")>>
                  ELSE ContentIssues(content.v, base, 0, ln, sid))
            ELSE (IF ~(IsStr(content) \/ IsList(content) \/ IsDict(content))
                  THEN <<Issue("ERROR", "E012_BAD_FIELD_TYPE", ln, sid, base \o ".content")>>
                  ELSE <<>>))

RECURSIVE MessagesIssues(_, _, _, _, _)
MessagesIssues(msgs, mi, ln, sid, strict_typed) ==
    IF mi >= Len(msgs) THEN <<>>
    ELSE MessageIssues(msgs[mi + 1], mi, ln, sid, strict_typed)
         \o MessagesIssues(msgs, mi + 1, ln, sid, strict_typed)

\* _validate_messages_schema taking a `messages` that is no list for an empty one.
ValidateMessagesSchemaOrEmpty(messages, ln, sid, strict_typed) ==
    IF ~IsList(messages) THEN <<>>
    ELSE MessagesIssues(messages.v, 0, ln, sid, strict_typed)

\* _validate_messages_schema
ValidateMessagesSchema(messages, ln, sid, strict_typed) ==
    IF ~IsList(messages)
    THEN <<Issue("ERROR", "E003_SCHEMA_MISMATCH", ln, sid, "messages")>>
    ELSE MessagesIssues(messages.v, 0, ln, sid, strict_typed)

\* `role not in _ALLOWED_ROLES` hashes role, _ALLOWED_ROLES being a set: a role
\* that is a list or a mapping raises TypeError, and _validate_messages_schema
\* raises with it, its local list of issues lost.
Unhashable(x) == x.t \in {"list", "dict"}
SchemaRaises(messages) ==
    /\ IsList(messages)
    /\ \E i \in 1..Len(messages.v) :
          IsDict(messages.v[i]) /\ Unhashable(Get(messages.v[i], "role"))

\* The outcome of a check: the issues it returns, or an exception it raises.
Returns(iss) == [raised |-> FALSE, issues |-> iss]
Raises == [raised |-> TRUE, issues |-> <<>>]

IsSystemMsg(m) == Get(m, "role") = Word("system")
IsAssistantMsg(m) == Get(m, "role") = Word("assistant")
ContentText(m) == TypedTextOfContent(Get(m, "content"))

\* The extracted texts of the system messages, in order.
RECURSIVE SystemTexts(_)
SystemTexts(msgs) ==
    IF msgs = <<>> THEN <<>>
    ELSE (IF IsSystemMsg(Head(msgs)) THEN <<ContentText(Head(msgs))>> ELSE <<>>)
         \o SystemTexts(Tail(msgs))

\* The blank test without the strip: only the empty text counts.
AnySystemEmptyString(texts) == \E i \in 1..Len(texts) : texts[i] = <<>>

\* `for sm in sys_msgs: if _is_blank_text(txt): ...; break`: some system message is blank.
AnySystemBlank(texts) == \E i \in 1..Len(texts) : IsBlankText(texts[i])

\* _system_presence_and_nonempty.  `m.get` on a message that is no mapping
\* raises AttributeError; the list comprehension visits every message.
SystemPresenceAndNonempty(msgs, ln, sid, profile_obj) ==
    IF ~profile_obj.require_system THEN Returns(<<>>)
    ELSE IF \E i \in 1..Len(msgs) : ~IsDict(msgs[i]) THEN Raises
    ELSE LET texts == SystemTexts(msgs) IN
         IF texts = <<>>
         THEN Returns(<<Issue("ERROR", "E002_SYSTEM_REQUIRED", ln, sid, "messages")>>)
         ELSE IF AnySystemBlank(texts)
              THEN Returns(<<Issue("ERROR", "E002_SYSTEM_EMPTY", ln, sid, "messages")>>)
              ELSE Returns(<<>>)

\* The mode strings a caller may pass; "" stands for an absent (None or empty) mode.
Modes == {"", "train", "infer", "Infer"}

\* The mode compared without .lower().
NormModeExact(mode) == IF mode = "" THEN "train" ELSE mode

\* (mode or "train").lower()
NormMode(mode) ==
    IF mode = "" THEN "train" ELSE IF mode \in {"infer", "Infer"} THEN "infer" ELSE mode

\* Index (from 1) of the first assistant message among mappings, 0 when none.
\* Only called on the prefix any()/next() visit.
RECURSIVE FirstAssistant(_, _)
FirstAssistant(msgs, i) ==
    IF i > Len(msgs) THEN 0
    ELSE IF IsDict(msgs[i]) /\ IsAssistantMsg(msgs[i]) THEN i
    ELSE FirstAssistant(msgs, i + 1)

\* Index (from 1) of the first message that is no mapping, 0 when none.
RECURSIVE FirstNonDict(_, _)
FirstNonDict(msgs, i) ==
    IF i > Len(msgs) THEN 0
    ELSE IF ~IsDict(msgs[i]) THEN i
    ELSE FirstNonDict(msgs, i + 1)

\* Index (from 1) of the assistant message the leakage issue is anchored at.
AnchorAssistant(msgs) == FirstAssistant(msgs, 1)

\* _mode_specific_checks.  any() stops at the first assistant message; a message
\* that is no mapping and comes before it raises AttributeError.
ModeSpecificChecks(msgs, ln, sid, mode) ==
    LET fa == FirstAssistant(msgs, 1)
        fn == FirstNonDict(msgs, 1)
        has_assistant == fa # 0
    IN
    IF fn # 0 /\ (fa = 0 \/ fn < fa) THEN Raises
    ELSE IF NormMode(mode) = "infer"
    THEN (IF has_assistant
          THEN Returns(<<Issue("ERROR", "E001_INFER_HAS_ASSISTANT", ln, sid,
                               MsgPath(AnchorAssistant(msgs) - 1) \o ".role")>>)
          ELSE Returns(<<>>))
    ELSE (IF ~has_assistant
          THEN Returns(<<Issue("ERROR", "E001_TRAIN_MISSING_ASSISTANT", ln, sid, "messages")>>)
          ELSE Returns(<<>>))

----------------------------------------------------------------------------
(* core.py: lint_jsonl *)

\* A line of a JSONL file: blank, not JSON ("bad"), or the text of the JSON
\* value `val` written in the form `form`.  "canon" is the text json.dumps(val,
\* ensure_ascii=False) writes; "compact" has no space after ',' and ':';
\* "escaped" writes non-ASCII characters as \uXXXX.  json.loads accepts all three.
JsonLine(form, val) == [kind |-> "json", form |-> form, val |-> val]
BlankLine == [kind |-> "blank", form |-> "raw", val |-> JNull]
BadLine == [kind |-> "bad", form |-> "raw", val |-> JNull]
NoLine == [kind |-> "none", form |-> "raw", val |-> JNull]

RECURSIVE Concat(_)
Concat(s) == IF s = <<>> THEN "" ELSE Head(s) \o Concat(Tail(s))

\* str(x) of a JSON value.
PyStr(x) ==
    IF IsStr(x) THEN Concat(x.v)
    ELSE IF x.t = "null" THEN "None"
    ELSE IF x.t = "int" THEN ToString(x.v)
    ELSE "<repr>"

\* str(obj.get("id", f"line_{line_no}"))
SampleId(obj, ln) ==
    IF HasKey(obj, "id") THEN PyStr(obj.v["id"]) ELSE "line_" \o ToString(ln)

\* The body of the loop of lint_jsonl for a line that parsed to the mapping obj:
\* the issues it appends, and whether it raises after appending them.
LintRecord(obj, ln, cfg) ==
    LET sid == SampleId(obj, ln)
        messages == Get(obj, "messages")
        sch == ValidateMessagesSchema(messages, ln, sid, cfg.strict_typed)
    IN
    IF SchemaRaises(messages) THEN Raises
    ELSE IF ~IsList(messages) THEN Returns(sch)
    ELSE LET sys == SystemPresenceAndNonempty(messages.v, ln, sid, cfg.profile_obj) IN
         IF sys.raised THEN [raised |-> TRUE, issues |-> sch]
         ELSE LET md == ModeSpecificChecks(messages.v, ln, sid, cfg.mode) IN
              IF md.raised THEN [raised |-> TRUE, issues |-> sch \o sys.issues]
              ELSE Returns(sch \o sys.issues \o md.issues)

\* The body of the loop of lint_jsonl for one line.  obj.get on a JSON value
\* that is no mapping raises AttributeError.
LintLineResult(ln_text, ln, cfg) ==
    IF ln_text.kind = "blank" THEN Returns(<<>>)
    ELSE IF ln_text.kind = "bad"
    THEN Returns(<<Issue("ERROR", "E004_BAD_JSON", ln, "line_" \o ToString(ln), "$")>>)
    ELSE IF ~IsDict(ln_text.val) THEN Raises
    ELSE LintRecord(ln_text.val, ln, cfg)

\* Messages of the records linted.
SysMsg(content) == JDict([role |-> Word("system"), content |-> content])
UserMsg(content) == JDict([role |-> Word("user"), content |-> content])
AssistantMsg(content) == JDict([role |-> Word("assistant"), content |-> content])

LintMsgs ==
    { Word("x"),                       \* a message that is no mapping
      SysMsg(JStr(<<" ">>)),           \* blank system prompt
      SysMsg(JStr(<<"a">>)),
      AssistantMsg(JStr(<<"ok">>)) }

SeqsUpTo(S, n) == UNION {[1..k -> S] : k \in 0..n}

Record(id, messages) == JDict([id |-> id, messages |-> messages])

LintRecords ==
    {Record(Word("t1"), JList(ms)) : ms \in SeqsUpTo(LintMsgs, MaxMsgs)}
    \cup { JDict([id |-> Word("t1")]),                          \* no `messages` key
           Record(Word("t1"), JStr(<<"hi">>)),                  \* messages is a string
           Record(Word("t1"), JNull),
           Record(Word("t1"), JDict([role |-> Word("system")])),
           JDict([messages |-> JList(<<UserMsg(JStr(<<"hi">>))>>)]) }   \* no `id`

LintLines ==
    {JsonLine("canon", r) : r \in LintRecords}
    \cup {BlankLine, BadLine, JsonLine("canon", JList(<<>>))}

\* The records and mode strings the mode check is compared on: every message a
\* mapping, one of them with a list as role; "eval" is no mode the tool names.
ModeRecords ==
    {Record(Word("t1"), JList(ms)) :
        ms \in SeqsUpTo({SysMsg(JStr(<<"a">>)), UserMsg(JStr(<<"hi">>)),
                         AssistantMsg(JStr(<<"ok">>)),
                         JDict([role |-> JList(<<Word("user")>>),
                                content |-> JStr(<<"hi">>)])}, MaxMsgs)}
ModeLines == {JsonLine("canon", r) : r \in ModeRecords}
ModeStrings == Modes \cup {"eval"}

\* The profiles a pass is run with: a built-in, and a valid override that
\* does not require a system message.
PassProfiles == {DEFAULT_PROFILES["generic"], Profile("new", FALSE, TRUE, FALSE, "WARN")}

LintCfgs == [mode: Modes, profile_obj: PassProfiles, strict_typed: BOOLEAN]

LintInit ==
    /\ lintCfg \in LintCfgs
    /\ lintPc = "running"
    /\ line_no = 0
    /\ line = NoLine
    /\ issues = <<>>

\* One iteration of `for line_no, line in enumerate(f, start=1)`.
LintLine(ln_text) ==
    /\ lintPc = "running"
    /\ line_no < MaxLines
    /\ line_no' = line_no + 1
    /\ line' = ln_text
    /\ LET r == LintLineResult(ln_text, line_no + 1, lintCfg) IN
       /\ issues' = issues \o r.issues
       /\ lintPc' = IF r.raised THEN "raised" ELSE "running"
    /\ UNCHANGED <<lintCfg, nonLintVars>>

\* The call `issues.extend(_mode_specific_checks(messages, line_no, sample_id,
\* mode))` of an iteration, for a line that holds a record with a message list.
ModeCheck(ln_text) ==
    /\ lintPc = "running"
    /\ line_no < MaxLines
    /\ line_no' = line_no + 1
    /\ line' = ln_text
    /\ LET r == ModeSpecificChecks(Get(ln_text.val, "messages").v, line_no + 1,
                                   SampleId(ln_text.val, line_no + 1), lintCfg.mode) IN
       /\ issues' = issues \o r.issues
       /\ lintPc' = IF r.raised THEN "raised" ELSE "running"
    /\ UNCHANGED <<lintCfg, nonLintVars>>

\* End of file: `return issues`.
LintReturn ==
    /\ lintPc = "running"
    /\ lintPc' = "returned"
    /\ UNCHANGED <<lintCfg, line_no, line, issues, nonLintVars>>

\* The pass is not run.
LintIdle ==
    /\ lintCfg = [mode |-> "train", profile_obj |-> DEFAULT_PROFILES["generic"],
                  strict_typed |-> FALSE]
    /\ lintPc = "returned"
    /\ line_no = 0
    /\ line = NoLine
    /\ issues = <<>>

----------------------------------------------------------------------------
(* core.py: verify_system_visibility_jsonl *)

\* The render plugins a pass is run with.
\*   kw_full:    render(messages, **kwargs), returns the text of every message
\*   pos_drop:   render(messages), TypeError on the keyword call; drops the
\*               system messages (tests/render_plugin_drop_system.py)
\*   kw_raises:  the keyword call raises an exception that is no TypeError
\*   pos_raises: TypeError on the keyword call, and the call render(messages) raises
Renderers == {"kw_full", "pos_drop", "kw_raises", "pos_raises"}

\* The texts of the messages a plugin renders, in order.
RECURSIVE RenderedTexts(_, _)
RenderedTexts(msgs, drop_system) ==
    IF msgs = <<>> THEN <<>>
    ELSE (IF drop_system /\ IsSystemMsg(Head(msgs)) THEN <<>> ELSE <<ContentText(Head(msgs))>>)
         \o RenderedTexts(Tail(msgs), drop_system)

\* `s in t` taken for `t.startswith(s)`.
ContainsAtStart(t, s) == Len(s) <= Len(t) /\ SubSeq(t, 1, Len(s)) = s

\* s in t, on strings.
Contains(t, s) ==
    \E i \in 0..(Len(t) - Len(s)) : SubSeq(t, i + 1, i + Len(s)) = s

\* The try/except around render_fn: the prompt, or the exception, and the
\* number of calls made.  outcome: "prompt", "caught" (except Exception: the
\* E901 issue) or "raised" (an exception of the fallback call, which no
\* handler catches).
Render(renderer, msgs) ==
    IF renderer = "kw_full"
    THEN [outcome |-> "prompt", prompt |-> JoinNL(RenderedTexts(msgs, FALSE)), calls |-> 1]
    ELSE IF renderer = "pos_drop"
    THEN [outcome |-> "prompt", prompt |-> JoinNL(RenderedTexts(msgs, TRUE)), calls |-> 2]
    ELSE IF renderer = "kw_raises"
    THEN [outcome |-> "caught", prompt |-> <<>>, calls |-> 1]
    ELSE [outcome |-> "raised", prompt |-> <<>>, calls |-> 2]

VerifyResult(raised, iss, calls) == [raised |-> raised, issues |-> iss, calls |-> calls]

\* The body of the loop of verify_system_visibility_jsonl for a line that
\* parsed to the mapping obj.
VerifyRecord(obj, ln, cfg) ==
    LET sid == SampleId(obj, ln)
        messages == Get(obj, "messages")
        sch == ValidateMessagesSchema(messages, ln, sid, cfg.strict_typed)
    IN
    IF SchemaRaises(messages) THEN VerifyResult(TRUE, <<>>, 0)
    ELSE IF ~IsList(messages) THEN VerifyResult(FALSE, sch, 0)
    ELSE LET sys == SystemPresenceAndNonempty(messages.v, ln, sid, cfg.profile_obj) IN
         IF sys.raised THEN VerifyResult(TRUE, sch, 0)
         \* sys_texts: m.get on every message
         ELSE IF \E i \in 1..Len(messages.v) : ~IsDict(messages.v[i])
         THEN VerifyResult(TRUE, sch \o sys.issues, 0)
         ELSE IF ~cfg.profile_obj.system_visible
         THEN VerifyResult(FALSE, sch \o sys.issues, 0)
         ELSE LET sys_text == JoinNL(SystemTexts(messages.v))
                  r == Render(cfg.renderer, messages.v)
              IN
              IF r.outcome = "raised" THEN VerifyResult(TRUE, sch \o sys.issues, r.calls)
              ELSE IF r.outcome = "caught"
              THEN VerifyResult(FALSE,
                       sch \o sys.issues
                       \o <<Issue("ERROR", "E901_RENDER_PLUGIN_ERROR", ln, sid, "messages")>>,
                       r.calls)
              ELSE IF Strip(sys_text) # <<>> /\ ~Contains(r.prompt, Strip(sys_text))
              THEN VerifyResult(FALSE,
                       sch \o sys.issues
                       \o <<Issue(cfg.profile_obj.system_invisible_level,
                                  "E002_SYSTEM_NOT_VISIBLE", ln, sid, "messages")>>,
                       r.calls)
              ELSE VerifyResult(FALSE, sch \o sys.issues, r.calls)

\* The body of the loop for one line.
VerifyLineResult(ln_text, ln, cfg) ==
    IF ln_text.kind = "blank" THEN VerifyResult(FALSE, <<>>, 0)
    ELSE IF ln_text.kind = "bad"
    THEN VerifyResult(FALSE,
             <<Issue("ERROR", "E004_BAD_JSON", ln, "line_" \o ToString(ln), "$")>>, 0)
    ELSE IF ~IsDict(ln_text.val) THEN VerifyResult(TRUE, <<>>, 0)
    ELSE VerifyRecord(ln_text.val, ln, cfg)

\* A valid profile that does not expect the system message to be visible.
FoldingProfile == Profile("fold", FALSE, FALSE, TRUE, "ERROR")

\* A Profile constructed without validate(): it requires a system message and
\* does not expect it to be visible.
UnvalidatedProfile == Profile("raw", TRUE, FALSE, FALSE, "ERROR")

VerifyCfgs == [profile_obj: PassProfiles \cup {FoldingProfile, UnvalidatedProfile},
               strict_typed: BOOLEAN,
               renderer: Renderers]

VerifyInit ==
    /\ verCfg \in VerifyCfgs
    /\ verPc = "running"
    /\ verLineNo = 0
    /\ verLine = NoLine
    /\ verIssues = <<>>
    /\ renderCalls = 0

\* One iteration of `for line_no, line in enumerate(f, start=1)`.
VerifyLine(ln_text) ==
    /\ verPc = "running"
    /\ verLineNo < MaxLines
    /\ verLineNo' = verLineNo + 1
    /\ verLine' = ln_text
    /\ LET r == VerifyLineResult(ln_text, verLineNo + 1, verCfg) IN
       /\ verIssues' = verIssues \o r.issues
       /\ renderCalls' = r.calls
       /\ verPc' = IF r.raised THEN "raised" ELSE "running"
    /\ UNCHANGED <<verCfg, nonVerVars>>

\* End of file: `return issues`.
VerifyReturn ==
    /\ verPc = "running"
    /\ verPc' = "returned"
    /\ UNCHANGED <<verCfg, verLineNo, verLine, verIssues, renderCalls,
                   nonVerVars>>

VerifyIdle ==
    /\ verCfg = [profile_obj |-> DEFAULT_PROFILES["generic"], strict_typed |-> FALSE,
                 renderer |-> "kw_full"]
    /\ verPc = "returned"
    /\ verLineNo = 0
    /\ verLine = NoLine
    /\ verIssues = <<>>
    /\ renderCalls = 0

FixIdle ==
    /\ fixCfg = [strict_typed |-> FALSE]
    /\ fixPc = "done"
    /\ fixIn = <<>>
    /\ fixPos = 0
    /\ fixOut = <<>>
    /\ fixIssues = <<>>
    /\ fixOut2 = <<>>
    /\ fixIssues2 = <<>>

ProfileIdle ==
    /\ loadPc = "returned"
    /\ profs = DEFAULT_PROFILES
    /\ entries = <<>>
    /\ registry = DEFAULT_PROFILES
    /\ lastProfile = NoProfile
    /\ lastValidate = "not called"
    /\ builtinTable = DEFAULT_PROFILES

----------------------------------------------------------------------------
(* core.py: fix_jsonl *)

\* json.loads of a line of kind "json": the value, whatever its form.
JsonLoads(ln_text) == ln_text.val

\* json.dumps(obj, ensure_ascii=False): one form, whatever form the input had.
JsonDumps(val) == JsonLine("canon", val)

\* The role rewrite logged but not made.
RoleFixNoWrite(m) == m

\* m["role"] = "user"
RoleFix(m) == SetKey(m, "role", Word("user"))

\* The test on an item without `"type" not in it`.
NeedsTypeNoCheck(it) == IsDict(it) /\ HasKey(it, "text")

\* `isinstance(it, dict) and "type" not in it and "text" in it`
NeedsType(it) == IsDict(it) /\ ~HasKey(it, "type") /\ HasKey(it, "text")

\* The guard of the type rewrite without `strict_typed`.
TypeFixAlways(strict_typed, content) == IsList(content)

\* `strict_typed and isinstance(m.get("content"), list)`
TypeFixActive(strict_typed, content) == strict_typed /\ IsList(content)

\* The loop over m["content"]: the items after it.
FixItems(items) ==
    [i \in 1..Len(items) |->
        IF NeedsType(items[i]) THEN SetKey(items[i], "type", Word("text")) ELSE items[i]]

\* The I902 issues of the loop over m["content"], one per item fixed.
RECURSIVE TypeFixIssues(_, _, _)
TypeFixIssues(items, ln, sid) ==
    IF items = <<>> THEN <<>>
    ELSE (IF NeedsType(Head(items))
          THEN <<Issue("INFO", "I902_FIX_ADD_TYPE_TEXT", ln, sid, "messages[].content[].type")>>
          ELSE <<>>)
         \o TypeFixIssues(Tail(items), ln, sid)

\* The body of `for m in msgs`: the message after it, and the issues logged.
FixMessage(m, ln, sid, strict_typed) ==
    IF ~IsDict(m) THEN [msg |-> m, issues |-> <<>>]
    ELSE LET usr == Get(m, "role") = Word("usr")
             m1 == IF usr THEN RoleFix(m) ELSE m
             i1 == IF usr
                   THEN <<Issue("INFO", "I901_FIX_ROLE_USR", ln, sid, "messages[].role")>>
                   ELSE <<>>
             content == Get(m1, "content")
         IN
         IF TypeFixActive(strict_typed, content)
         THEN [msg |-> SetKey(m1, "content", JList(FixItems(content.v))),
               issues |-> i1 \o TypeFixIssues(content.v, ln, sid)]
         ELSE [msg |-> m1, issues |-> i1]

RECURSIVE FixMessagesIssues(_, _, _, _)
FixMessagesIssues(msgs, ln, sid, strict_typed) ==
    IF msgs = <<>> THEN <<>>
    ELSE FixMessage(Head(msgs), ln, sid, strict_typed).issues
         \o FixMessagesIssues(Tail(msgs), ln, sid, strict_typed)

\* Lines 231-244: the record after the rewrites, and the issues logged.
FixRecord(obj, ln, strict_typed) ==
    LET sid == SampleId(obj, ln)
        msgs == Get(obj, "messages")
    IN
    IF IsList(msgs)
    THEN [obj |-> SetKey(obj, "messages",
                     JList([i \in 1..Len(msgs.v) |->
                               FixMessage(msgs.v[i], ln, sid, strict_typed).msg])),
          issues |-> FixMessagesIssues(msgs.v, ln, sid, strict_typed)]
    ELSE [obj |-> obj, issues |-> <<>>]

\* fix_jsonl writing a line it could not parse through to the output.
FixLineResultKeepsBad(ln_text, ln, strict_typed) ==
    IF ln_text.kind = "blank" THEN [raised |-> FALSE, issues |-> <<>>, out |-> <<>>]
    ELSE IF ln_text.kind = "bad"
    THEN [raised |-> FALSE,
          issues |-> <<Issue("ERROR", "E004_BAD_JSON", ln, "line_" \o ToString(ln), "$")>>,
          out |-> <<ln_text>>]
    ELSE IF ~IsDict(JsonLoads(ln_text)) THEN [raised |-> TRUE, issues |-> <<>>, out |-> <<>>]
    ELSE LET r == FixRecord(JsonLoads(ln_text), ln, strict_typed) IN
         [raised |-> FALSE, issues |-> r.issues, out |-> <<JsonDumps(r.obj)>>]

\* The body of the loop of fix_jsonl for one line: the issues appended, the
\* lines written, and whether it raises (obj.get on a JSON value that is no mapping).
FixLineResult(ln_text, ln, strict_typed) ==
    IF ln_text.kind = "blank" THEN [raised |-> FALSE, issues |-> <<>>, out |-> <<>>]
    ELSE IF ln_text.kind = "bad"
    THEN [raised |-> FALSE,
          issues |-> <<Issue("ERROR", "E004_BAD_JSON", ln, "line_" \o ToString(ln), "$")>>,
          out |-> <<>>]
    ELSE IF ~IsDict(JsonLoads(ln_text)) THEN [raised |-> TRUE, issues |-> <<>>, out |-> <<>>]
    ELSE LET r == FixRecord(JsonLoads(ln_text), ln, strict_typed) IN
         [raised |-> FALSE, issues |-> r.issues, out |-> <<JsonDumps(r.obj)>>]

\* The records fixed.
TextItem(s) == JDict([type |-> Word("text"), text |-> JStr(s)])
UntypedItem(s) == JDict([text |-> JStr(s)])
NullTypeItem(s) == JDict([type |-> JNull, text |-> JStr(s)])
ImageItem == JDict([type |-> Word("image"), image |-> Word("a.png")])
UsrMsg(content) == JDict([role |-> Word("usr"), content |-> content])

FixRecords ==
    { Record(Word("t1"), JList(<<UsrMsg(JStr(<<"hi">>))>>)),
      Record(Word("t1"), JList(<<UserMsg(JList(<<UntypedItem(<<"a">>), TextItem(<<"b">>),
                                                 Word("s")>>))>>)),
      JDict([messages |-> JList(<<UsrMsg(JList(<<UntypedItem(<<"a">>), NullTypeItem(<<"b">>)>>)),
                                  Word("x")>>)]),
      Record(Word("t1"), JList(<<SysMsg(JStr(<<"a">>)), UserMsg(JList(<<ImageItem>>))>>)),
      Record(Word("t1"), Word("usr")),
      Record(Word("t1"), JList(<<UserMsg(UntypedItem(<<"a">>))>>)) }

FixLines ==
    {JsonLine(f, r) : f \in {"canon", "compact"}, r \in FixRecords}
    \cup {JsonLine("escaped", Record(Word("t1"), JList(<<UserMsg(Word("caf<U+00E9>"))>>)))}
    \cup {BlankLine, BadLine, JsonLine("canon", JList(<<>>))}

FixInit ==
    /\ fixCfg \in [strict_typed: BOOLEAN]
    /\ fixPc = "first"
    /\ fixIn = <<>>
    /\ fixPos = 0
    /\ fixOut = <<>>
    /\ fixIssues = <<>>
    /\ fixOut2 = <<>>
    /\ fixIssues2 = <<>>

\* First run: one iteration of `for line_no, line in enumerate(fin, start=1)`.
FixLine(ln_text) ==
    /\ fixPc = "first"
    /\ fixPos < MaxLines
    /\ fixIn' = Append(fixIn, ln_text)
    /\ fixPos' = fixPos + 1
    /\ LET r == FixLineResult(ln_text, fixPos + 1, fixCfg.strict_typed) IN
       /\ fixIssues' = fixIssues \o r.issues
       /\ fixOut' = fixOut \o r.out
       /\ fixPc' = IF r.raised THEN "raised" ELSE "first"
    /\ UNCHANGED <<fixCfg, fixOut2, fixIssues2, nonFixVars>>

\* First run: end of file, `return str(out_p), issues`; fix_jsonl is then
\* called on the file it wrote.
FixReturn ==
    /\ fixPc = "first"
    /\ fixPc' = "second"
    /\ fixPos' = 0
    /\ UNCHANGED <<fixCfg, fixIn, fixOut, fixIssues, fixOut2, fixIssues2,
                   nonFixVars>>

\* Second run: one iteration of the loop, on the next line of the first output.
FixAgainLine ==
    /\ fixPc = "second"
    /\ fixPos < Len(fixOut)
    /\ fixPos' = fixPos + 1
    /\ LET r == FixLineResult(fixOut[fixPos + 1], fixPos + 1, fixCfg.strict_typed) IN
       /\ fixIssues2' = fixIssues2 \o r.issues
       /\ fixOut2' = fixOut2 \o r.out
       /\ fixPc' = IF r.raised THEN "raised again" ELSE "second"
    /\ UNCHANGED <<fixCfg, fixIn, fixOut, fixIssues, nonFixVars>>

\* Second run: end of file.
FixAgainReturn ==
    /\ fixPc = "second"
    /\ fixPos = Len(fixOut)
    /\ fixPc' = "done"
    /\ UNCHANGED <<fixCfg, fixIn, fixPos, fixOut, fixIssues, fixOut2, fixIssues2,
                   nonFixVars>>

----------------------------------------------------------------------------
(* core.py: check_dataset_on_disk *)

\* Values of a dataset row besides those of JSON: integers and floats with
\* their value, and a decoded image, which has a `size`.
JInt(n) == [t |-> "int", v |-> n]
JFloat(n) == [t |-> "float", v |-> n]
PilImage(w, h) == [t |-> "image", size |-> <<w, h>>]

\* A dict with its keys in insertion order: pairs is a sequence of <<key, value>>.
ODict(pairs) ==
    [t |-> "dict",
     k |-> [i \in 1..Len(pairs) |-> pairs[i][1]],
     v |-> [key \in {pairs[i][1] : i \in 1..Len(pairs)} |->
               pairs[CHOOSE i \in 1..Len(pairs) : pairs[i][1] = key][2]]]

\* _walk_none: the paths of the None leaves, in the order of the walk.
RECURSIVE WalkNone(_, _), WalkItems(_, _, _)
WalkNone(obj, prefix) ==
    IF obj.t = "null" THEN <<IF prefix = "" THEN "$" ELSE prefix>>
    ELSE IF obj.t \in {"dict", "list"} THEN WalkItems(obj, prefix, 1)
    ELSE <<>>

\* The loops of _walk_none over obj.items() and enumerate(obj), from item i.
WalkItems(obj, prefix, i) ==
    IF obj.t = "dict"
    THEN IF i > Len(obj.k) THEN <<>>
         ELSE WalkNone(obj.v[obj.k[i]],
                       IF prefix = "" THEN obj.k[i] ELSE prefix \o "." \o obj.k[i])
              \o WalkItems(obj, prefix, i + 1)
    ELSE IF i > Len(obj.v) THEN <<>>
         ELSE WalkNone(obj.v[i], prefix \o "[" \o ToString(i - 1) \o "]")
              \o WalkItems(obj, prefix, i + 1)

\* _find_image_columns: the columns whose feature is an Image, in schema order.
RECURSIVE FindImageColumns(_)
FindImageColumns(features) ==
    IF features = <<>> THEN <<>>
    ELSE (IF Head(features).kind = "Image" THEN <<Head(features).name>> ELSE <<>>)
         \o FindImageColumns(Tail(features))

\* `"image_w" if "image_w" in features else ("width" if "width" in features else None)`;
\* "" stands for None.
SizeColumn(features, first, second) ==
    LET names == {features[i].name : i \in 1..Len(features)} IN
    IF first \in names THEN first ELSE IF second \in names THEN second ELSE ""

IsInt(x) == x.t = "int"

\* The loop of _get_size_from_row over image_cols, from column i; <<>> is None.
RECURSIVE ImageSize(_, _, _)
ImageSize(row_, image_cols, i) ==
    IF i > Len(image_cols) THEN <<>>
    ELSE LET img == Get(row_, image_cols[i]) IN
         IF img.t = "image" THEN img.size
         ELSE IF IsDict(img) /\ IsInt(Get(img, "width")) /\ IsInt(Get(img, "height"))
         THEN <<Get(img, "width").v, Get(img, "height").v>>
         ELSE ImageSize(row_, image_cols, i + 1)

\* _get_size_from_row taking the image columns before the explicit columns.
GetSizeImageFirst(row_, image_cols, w_col, h_col) ==
    IF ImageSize(row_, image_cols, 1) # <<>> THEN ImageSize(row_, image_cols, 1)
    ELSE IF w_col # "" /\ h_col # "" /\ IsInt(Get(row_, w_col)) /\ IsInt(Get(row_, h_col))
    THEN <<Get(row_, w_col).v, Get(row_, h_col).v>>
    ELSE <<>>

\* _get_size_from_row
GetSizeFromRow(row_, image_cols, w_col, h_col) ==
    IF w_col # "" /\ h_col # "" /\ IsInt(Get(row_, w_col)) /\ IsInt(Get(row_, h_col))
    THEN <<Get(row_, w_col).v, Get(row_, h_col).v>>
    ELSE ImageSize(row_, image_cols, 1)

\* `for part in coord_field.split(".")`: the value the path leads to, from part i.
RECURSIVE ResolvePath(_, _, _)
ResolvePath(cur, parts, i) ==
    IF i > Len(parts) THEN [ok |-> TRUE, cur |-> cur]
    ELSE IF IsDict(cur) /\ HasKey(cur, parts[i]) THEN ResolvePath(cur.v[parts[i]], parts, i + 1)
    ELSE [ok |-> FALSE, cur |-> JNull]

\* ".".join(parts): coord_field as the caller wrote it.
RECURSIVE JoinDot(_)
JoinDot(parts) ==
    IF Len(parts) = 1 THEN parts[1] ELSE parts[1] \o "." \o JoinDot(Tail(parts))

\* str.lower()
Lower(s) == [i \in 1..Len(s) |-> IF s[i] \in DOMAIN LowerCase THEN LowerCase[s[i]] ELSE s[i]]

\* k.lower().endswith(suffixes)
EndsWithAny(k, suffixes) ==
    LET l == Lower(Chars(k)) IN
    \E suf \in suffixes : Len(suf) <= Len(l) /\ SubSeq(l, Len(l) - Len(suf) + 1, Len(l)) = suf

XSuffixes == {<<"x">>, <<"x", "0">>, <<"x", "1">>, <<"c", "x">>}
YSuffixes == {<<"y">>, <<"y", "0">>, <<"y", "1">>, <<"c", "y">>}

\* The bounds test with `>=` for `>`: a coordinate on the far edge is out.
OutOfBoundsHalfOpen(v, side) == v < 0 \/ v >= side

\* `v < 0 or v > w`
OutOfBounds(v, side) == v < 0 \/ v > side

\* Step (3) of the row loop: the optional coordinate check.
CoordIssues(row_, size, row_no, sample_id, cfg) ==
    IF cfg.coord_field = <<>> \/ cfg.coord_keys = <<>> THEN <<>>
    ELSE LET r == ResolvePath(row_, cfg.coord_field, 1)
             vals == [i \in 1..Len(cfg.coord_keys) |-> Get(r.cur, cfg.coord_keys[i])]
         IN
         IF r.ok /\ IsDict(r.cur)
            /\ (\A i \in 1..Len(vals) : vals[i].t \in {"int", "float"}) /\ size # <<>>
            /\ \E i \in 1..Len(vals) :
                  \/ EndsWithAny(cfg.coord_keys[i], XSuffixes) /\ OutOfBounds(vals[i].v, size[1])
                  \/ EndsWithAny(cfg.coord_keys[i], YSuffixes) /\ OutOfBounds(vals[i].v, size[2])
         THEN <<Issue("WARN", "W301_COORD_OUT_OF_BOUNDS", row_no, sample_id,
                      JoinDot(cfg.coord_field))>>
         ELSE <<>>

\* Step (1) stopping at the first path of _walk_none.
NoneIssuesFirst(paths, row_no, sample_id) ==
    IF paths = <<>> THEN <<>>
    ELSE <<Issue("ERROR", "E102_DATASET_NONE_VALUE", row_no, sample_id, paths[1])>>

\* The issues of step (1) of the row loop, one per path of _walk_none.
NoneIssues(paths, row_no, sample_id) ==
    [i \in 1..Len(paths) |->
        Issue("ERROR", "E102_DATASET_NONE_VALUE", row_no, sample_id, paths[i])]

\* The test of step (2) comparing the widths alone.
SizeMismatchWidthOnly(size, expect_size) ==
    expect_size # <<>> /\ size[1] # expect_size[1]

\* `expect_size is not None and size != expect_size` (<<>> is None).
SizeMismatch(size, expect_size) == expect_size # <<>> /\ size # expect_size

\* The body of the row loop: the size of the row (<<>> for None) and the issues appended.
RowResult(row_, row_no, split_name, cfg) ==
    LET sample_id == IF HasKey(row_, "id") THEN PyStr(row_.v["id"])
                     ELSE split_name \o ":" \o ToString(row_no)
        size == GetSizeFromRow(row_, FindImageColumns(cfg.features),
                               SizeColumn(cfg.features, "image_w", "width"),
                               SizeColumn(cfg.features, "image_h", "height"))
    IN
    [size |-> size,
     issues |->
        NoneIssues(WalkNone(row_, ""), row_no, sample_id)
        \o (IF size = <<>>
            THEN <<Issue("WARN", "W202_IMAGE_SIZE_UNKNOWN", row_no, sample_id, "image")>>
            ELSE IF SizeMismatch(size, cfg.expect_size)
            THEN <<Issue("ERROR", "E201_IMAGE_SIZE_MISMATCH", row_no, sample_id, "image")>>
            ELSE <<>>)
        \o CoordIssues(row_, size, row_no, sample_id, cfg)]

\* The tally keeping a size it has already seen at its count.
CountSizeNoRepeat(seen, size) ==
    IF \E i \in 1..Len(seen) : seen[i][1] = size THEN seen ELSE Append(seen, <<size, 1>>)

\* seen_sizes[size] = seen_sizes.get(size, 0) + 1
CountSize(seen, size) ==
    IF \E i \in 1..Len(seen) : seen[i][1] = size
    THEN [i \in 1..Len(seen) |-> IF seen[i][1] = size THEN <<size, seen[i][2] + 1>> ELSE seen[i]]
    ELSE Append(seen, <<size, 1>>)

\* sorted(seen_sizes.items(), key=lambda kv: kv[1], reverse=True): a stable
\* sort, the pairs of equal count staying in insertion order.
RECURSIVE SortedByCount(_)
SortedByCount(seen) ==
    IF seen = <<>> THEN <<>>
    ELSE LET m == CHOOSE i \in 1..Len(seen) :
                      /\ \A j \in 1..Len(seen) : seen[j][2] <= seen[i][2]
                      /\ \A j \in 1..(i - 1) : seen[j][2] < seen[i][2]
         IN <<seen[m]>> \o SortedByCount(SubSeq(seen, 1, m - 1) \o SubSeq(seen, m + 1, Len(seen)))

\* The slice [:5] taken as [:4].
TopSizesShort(seen) == SubSeq(SortedByCount(seen), 1, IF Len(seen) < 4 THEN Len(seen) ELSE 4)

\* `top`: the first five of the sorted pairs.
TopSizes(seen) == SubSeq(SortedByCount(seen), 1, IF Len(seen) < 5 THEN Len(seen) ELSE 5)

\* (size_policy or "any").lower(); "" stands for None and for the empty string.
NormPolicy(size_policy) ==
    IF size_policy = "" THEN "any"
    ELSE IF size_policy \in {"consistent", "Consistent"} THEN "consistent"
    ELSE size_policy

\* The split-level issue after the row loop; the text of the W201 message is
\* kept as the list `top` it is built from.
SplitIssues(seen, split_name, cfg) ==
    IF NormPolicy(cfg.size_policy) # "consistent" THEN <<>>
    ELSE IF Len(seen) > 1
    THEN <<[level |-> "WARN", code |-> "W201_IMAGE_SIZE_INCONSISTENT", line |-> 1,
            sample_id |-> split_name, path |-> "image", top |-> TopSizes(seen)]>>
    ELSE IF Len(seen) = 0
    THEN <<Issue("WARN", "W202_IMAGE_SIZE_UNKNOWN", 1, split_name, "image")>>
    ELSE <<>>

\* The split being read, its name, the row read last and its number.
CurrentSplit == ds[Len(ds)]
split_name == CurrentSplit.name
row_no == Len(CurrentSplit.rows)
row == CurrentSplit.rows[row_no]

\* The schemas of the datasets read: columns in order, each with the class of
\* its feature.
Column(name, kind) == [name |-> name, kind |-> kind]
FlatFeatures ==
    <<Column("id", "Value"), Column("image_w", "Value"), Column("image_h", "Value"),
      Column("coordinates", "dict")>>
ImageFeatures ==
    <<Column("image", "Image"), Column("thumb", "Image"), Column("ann", "dict")>>
MixedFeatures ==
    <<Column("id", "Value"), Column("image", "Image"), Column("image_w", "Value"),
      Column("height", "Value")>>
SizeFeatures == <<Column("image_w", "Value"), Column("image_h", "Value")>>
PlainFeatures == <<Column("width", "Value"), Column("height", "Value")>>

\* The coordinate mappings of the rows of a FlatFeatures dataset.
Coords(x0, y0, x1, y1) ==
    ODict(<<<<"x0", x0>>, <<"y0", y0>>, <<"x1", x1>>, <<"y1", y1>>, <<"CX", x1>>,
            <<"score", JInt(9999)>>>>)
CoordValues ==
    {Coords(JInt(0), JInt(0), JInt(512), JInt(480)),
     Coords(JInt(50), JInt(80), JInt(900), JInt(950)),
     Coords(JFloat(0 - 1), JInt(0), JInt(10), JInt(10)),
     Coords(Word("a"), JInt(0), JInt(900), JInt(10)),
     Coords(JNull, JInt(0), JInt(900), JInt(10)),
     JNull}

\* The rows a dataset of each schema holds.
RowsOf(features) ==
    IF features = FlatFeatures
    THEN {ODict(<<<<"id", Word("a")>>, <<"image_w", wh[1]>>, <<"image_h", wh[2]>>,
                  <<"coordinates", c>>>>) :
             wh \in {<<JInt(512), JInt(512)>>, <<JInt(640), JInt(480)>>, <<JNull, JInt(512)>>},
             c \in CoordValues}
    ELSE IF features = ImageFeatures
    THEN {ODict(<<<<"image", i>>, <<"thumb", t>>, <<"ann", a>>>>) :
             i \in {PilImage(512, 512), ODict(<<<<"width", JInt(640)>>, <<"height", JInt(480)>>>>),
                    ODict(<<<<"path", Word("p")>>, <<"width", JNull>>>>)},
             t \in {PilImage(64, 64), JNull},
             a \in {ODict(<<<<"a", JInt(1)>>, <<"b", JInt(2)>>>>),
                    ODict(<<<<"a", JInt(1)>>, <<"b", JNull>>>>),
                    ODict(<<<<"coords", ODict(<<<<"x0", JInt(600)>>, <<"y0", JNull>>>>)>>,
                            <<"pts", JList(<<JNull, ODict(<<<<"x", JNull>>>>), JInt(3)>>)>>>>)}}
    ELSE IF features = MixedFeatures
    THEN {ODict(<<<<"id", d>>, <<"image", i>>, <<"image_w", w>>, <<"height", h>>>>) :
             d \in {JInt(7), JNull},
             i \in {PilImage(640, 480), JNull},
             w \in {JInt(512), JFloat(512)},
             h \in {JInt(512), Word("tall")}}
    ELSE IF features = PlainFeatures
    THEN {ODict(<<<<"width", w>>, <<"height", h>>>>) :
             w \in {JInt(512), JInt(640), JNull}, h \in {JInt(512), JInt(480)}}
    ELSE {ODict(<<<<"image_w", w>>, <<"image_h", JInt(10)>>>>) :
             w \in {JInt(1), JInt(2), JInt(3), JInt(4), JInt(5), JInt(6)}}

\* The arguments of check_dataset_on_disk together with what load_from_disk
\* finds: whether `datasets` imports, the split names and the schema.
DatasetCfg(splits, features, expect_size, size_policy, fail_on_level, coord_field, coord_keys) ==
    [importable |-> TRUE, splits |-> splits, features |-> features,
     expect_size |-> expect_size, size_policy |-> size_policy,
     fail_on_level |-> fail_on_level, coord_field |-> coord_field, coord_keys |-> coord_keys]

DatasetCfgs ==
    {DatasetCfg(<<"data">>, FlatFeatures, <<>>, "any", "ERROR",
                <<"coordinates">>, <<"x0", "y0", "x1", "y1">>),
     DatasetCfg(<<"train", "validation">>, FlatFeatures, <<512, 512>>, "consistent", "WARN",
                <<"coordinates">>, <<"CX", "score">>),
     DatasetCfg(<<"data">>, FlatFeatures, <<>>, "Consistent", "ERROR",
                <<"coordinates">>, <<"score", "y1">>),
     DatasetCfg(<<"train", "validation">>, ImageFeatures, <<>>, "consistent", "ERROR",
                <<"ann", "coords">>, <<"x0">>),
     DatasetCfg(<<"data">>, ImageFeatures, <<512, 512>>, "", "WARN", <<>>, <<>>),
     DatasetCfg(<<"train", "validation">>, MixedFeatures, <<512, 512>>, "any", "ERROR",
                <<"missing">>, <<"x0">>),
     DatasetCfg(<<"data">>, MixedFeatures, <<>>, "consistent", "WARN", <<>>, <<>>),
     [DatasetCfg(<<"data">>, FlatFeatures, <<>>, "any", "ERROR", <<>>, <<>>)
         EXCEPT !.importable = FALSE]}

SizeCfgs ==
    {DatasetCfg(<<"data">>, SizeFeatures, <<>>, p, "ERROR", <<>>, <<>>) :
        p \in {"consistent", "any"}}

\* Runs with and without an expected size, under either policy.
ExpectCfgs ==
    {DatasetCfg(<<"train", "validation">>, PlainFeatures, e, p, "ERROR", <<>>, <<>>) :
        e \in {<<>>, <<512, 512>>}, p \in {"any", "consistent"}}

RECURSIVE TotalRows(_)
TotalRows(splits) == IF splits = <<>> THEN 0 ELSE Len(Head(splits).rows) + TotalRows(Tail(splits))

DsInit(cfgs) ==
    /\ dsCfg \in cfgs
    /\ dsPc = "start"
    /\ ds = <<>>
    /\ seen_sizes = <<>>
    /\ dsIssues = <<>>

\* The import of `datasets`, load_from_disk and the entry into the first split.
DatasetOpen ==
    /\ dsPc = "start"
    /\ IF dsCfg.importable
       THEN /\ dsPc' = "running"
            /\ ds' = <<[name |-> dsCfg.splits[1], rows |-> <<>>]>>
            /\ dsIssues' = dsIssues
       ELSE /\ dsPc' = "returned"
            /\ ds' = ds
            /\ dsIssues' = <<Issue("ERROR", "E900_DATASETS_IMPORT", 1, "dataset", "$")>>
    /\ UNCHANGED <<dsCfg, seen_sizes, nonDsVars>>

\* One iteration of `for idx, row in enumerate(ds)`.
DatasetRow(r) ==
    /\ dsPc = "running"
    /\ LET res == RowResult(r, row_no + 1, split_name, dsCfg) IN
       /\ ds' = [ds EXCEPT ![Len(ds)].rows = Append(@, r)]
       /\ seen_sizes' = IF res.size # <<>> THEN CountSize(seen_sizes, res.size) ELSE seen_sizes
       /\ dsIssues' = dsIssues \o res.issues
    /\ UNCHANGED <<dsCfg, dsPc, nonDsVars>>

\* The end of a split's rows: the check of size_policy.
DatasetSplitEnd ==
    /\ dsPc = "running"
    /\ dsPc' = "split done"
    /\ dsIssues' = dsIssues \o SplitIssues(seen_sizes, split_name, dsCfg)
    /\ UNCHANGED <<dsCfg, ds, seen_sizes, nonDsVars>>

\* The next iteration of `for split_name, ds in _iter_splits(ds_any)`.
DatasetNextSplit ==
    /\ dsPc = "split done"
    /\ Len(ds) < Len(dsCfg.splits)
    /\ dsPc' = "running"
    /\ ds' = Append(ds, [name |-> dsCfg.splits[Len(ds) + 1], rows |-> <<>>])
    /\ seen_sizes' = <<>>
    /\ UNCHANGED <<dsCfg, dsIssues, nonDsVars>>

\* `return issues` after the last split.
DatasetReturn ==
    /\ dsPc = "split done"
    /\ Len(ds) = Len(dsCfg.splits)
    /\ dsPc' = "returned"
    /\ UNCHANGED <<dsCfg, ds, seen_sizes, dsIssues, nonDsVars>>

DsIdle ==
    /\ dsCfg = [importable |-> TRUE, splits |-> <<"data">>, features |-> <<>>,
                expect_size |-> <<>>, size_policy |-> "any", fail_on_level |-> "ERROR",
                coord_field |-> <<>>, coord_keys |-> <<>>]
    /\ dsPc = "returned"
    /\ ds = <<>>
    /\ seen_sizes = <<>>
    /\ dsIssues = <<>>

----------------------------------------------------------------------------
(* tests/dataset_checks.py: lint_dataset_on_disk *)

\* DatasetIssue(level, code, row, sample_id, path, message) without the message.
DatasetIssue(level, code, row_index, sample_id, path) ==
    [level |-> level, code |-> code, row |-> row_index, sample_id |-> sample_id, path |-> path]

\* The leaf paths of the nested column `coordinates` of the schema
\* {id, image_w, image_h, coordinates: {x0, y0, x1, y1}}, from _list_leaf_paths.
StrictLeafPaths == <<<<"coordinates", "x0">>, <<"coordinates", "y0">>,
                     <<"coordinates", "x1">>, <<"coordinates", "y1">>>>

\* _get_by_path: None when a step is no dict or lacks the key.
GetByPath(obj, path) ==
    IF ~IsDict(obj) \/ ~HasKey(obj, path[1]) THEN JNull
    ELSE LET cur == obj.v[path[1]] IN
         IF ~IsDict(cur) \/ ~HasKey(cur, path[2]) THEN JNull ELSE cur.v[path[2]]

\* Step (1) of the row loop: one E101 per leaf path whose value is None.
StrictNoneIssues(row_, i, sid) ==
    LET hit == SelectSeq(StrictLeafPaths, LAMBDA q : GetByPath(row_, q).t = "null") IN
    [k \in 1..Len(hit) |->
        DatasetIssue("ERROR", "E101_DATASET_NONE_FILLED", i, sid, hit[k][1] \o "." \o hit[k][2])]

Max2(a, b) == IF a >= b THEN a ELSE b

\* `if x1 > iw or y1 > ih`
Exceeds(x0, y0, x1, y1, iw, ih) == x1 > iw \/ y1 > ih

\* Step (2) of the row loop: the coordinate check.
StrictCoordIssues(row_, i, sid) ==
    LET iw == Get(row_, "image_w")
        ih == Get(row_, "image_h")
        coordinates == Get(row_, "coordinates")
    IN
    IF ~(IsInt(iw) /\ IsInt(ih) /\ IsDict(coordinates)) THEN <<>>
    ELSE LET x0 == Get(coordinates, "x0")
             y0 == Get(coordinates, "y0")
             x1 == Get(coordinates, "x1")
             y1 == Get(coordinates, "y1")
             coords == <<x0, y0, x1, y1>>
         IN
         IF \E c \in 1..4 : coords[c].t = "null" THEN <<>>
         ELSE IF ~\A c \in 1..4 : coords[c].t \in {"int", "float"}
         THEN <<DatasetIssue("ERROR", "E102_coordinates_BAD_TYPE", i, sid, "coordinates")>>
         ELSE (IF x0.v < 0 \/ y0.v < 0 \/ x1.v < 0 \/ y1.v < 0
               THEN <<DatasetIssue("ERROR", "E103_coordinates_NEGATIVE", i, sid, "coordinates")>>
               ELSE <<>>)
              \o (IF Exceeds(x0.v, y0.v, x1.v, y1.v, iw.v, ih.v)
                  THEN LET looks_like_1000 ==
                               /\ iw.v <= 600 /\ ih.v <= 600
                               /\ Max2(x1.v, y1.v) >= 800 /\ Max2(x1.v, y1.v) <= 1200
                       IN <<DatasetIssue("ERROR",
                                         IF looks_like_1000
                                         THEN "E105_coordinates_SPACE_MISMATCH"
                                         ELSE "E104_coordinates_OUT_OF_BOUNDS",
                                         i, sid, "coordinates")>>
                  ELSE <<>>)

\* The body of the row loop for row i (0-based) of split `data`.
StrictRowIssues(row_, i) ==
    LET sid == IF HasKey(row_, "id") THEN PyStr(row_.v["id"])
               ELSE "data:row_" \o ToString(i)
    IN StrictNoneIssues(row_, i, sid) \o StrictCoordIssues(row_, i, sid)

\* The rows of the dataset read.
StrictRow(w, h, c) ==
    ODict(<<<<"id", Word("a")>>, <<"image_w", w>>, <<"image_h", h>>, <<"coordinates", c>>>>)
Corners(x0, y0, x1, y1) == ODict(<<<<"x0", x0>>, <<"y0", y0>>, <<"x1", x1>>, <<"y1", y1>>>>)
StrictRows ==
    {StrictRow(JInt(wh[1]), JInt(wh[2]), Corners(x0, JInt(80), JInt(x1), JInt(y1))) :
        wh \in {<<512, 512>>, <<600, 600>>, <<600, 601>>},
        x0 \in {JInt(50), JInt(0 - 1), JInt(900), JNull, Word("a")},
        x1 \in {100, 600, 799, 800, 1200, 1201},
        y1 \in {100, 950, 1201}}
    \cup {StrictRow(JInt(512), JInt(512), JNull),
          StrictRow(JFloat(512), JInt(512),
                    Corners(JInt(50), JInt(80), JInt(900), JInt(950)))}

StrictInit ==
    /\ strictCfg \in [importable : BOOLEAN]
    /\ strictPc = "start"
    /\ strictRows = <<>>
    /\ strictIssues = <<>>

\* The import of `datasets`, load_from_disk and the list of splits.
StrictOpen ==
    /\ strictPc = "start"
    /\ IF strictCfg.importable
       THEN strictPc' = "running" /\ strictIssues' = strictIssues
       ELSE /\ strictPc' = "returned"
            /\ strictIssues' =
                  <<DatasetIssue("ERROR", "E100_DATASET_DEP_MISSING", 0, "dataset", "$")>>
    /\ UNCHANGED <<strictCfg, strictRows, nonStrictVars>>

\* One iteration of `for i in range(n)`.
StrictReadRow(r) ==
    /\ strictPc = "running"
    /\ Len(strictRows) < MaxStrictRows
    /\ strictRows' = Append(strictRows, r)
    /\ strictIssues' = strictIssues \o StrictRowIssues(r, Len(strictRows))
    /\ UNCHANGED <<strictCfg, strictPc, nonStrictVars>>

\* `return issues`
StrictReturn ==
    /\ strictPc = "running"
    /\ strictPc' = "returned"
    /\ UNCHANGED <<strictCfg, strictRows, strictIssues, nonStrictVars>>

\* The pass is not run.
StrictIdle ==
    /\ strictCfg = [importable |-> TRUE]
    /\ strictPc = "returned"
    /\ strictRows = <<>>
    /\ strictIssues = <<>>

----------------------------------------------------------------------------
(* core.py: _validate_messages_schema with strict_typed, on typed content *)

\* The elements of a content list.
TypedItems ==
    {JDict([type |-> Word("text"), text |-> Word("a")]),
     JDict([type |-> Word("text"), text |-> JNull]),
     JDict([type |-> Word("text")]),
     JDict([type |-> Word("image"), image |-> Word("a.png")]),
     JDict([type |-> Word("image"), text |-> Word("a")]),
     JDict([type |-> Word("audio")]),
     JDict([text |-> Word("a")]),
     JDict([type |-> JNull, text |-> Word("a")]),
     JDict([type |-> JStr(<<>>), text |-> Word("a")]),
     Word("a")}

\* The first message of the list: its content is no list, an empty list, a
\* valid list, or a list of two elements that each get an issue.
FirstContents ==
    {Word("a"), JNull, JList(<<>>),
     JList(<<JDict([type |-> Word("text"), text |-> Word("a")])>>),
     JList(<<Word("a"), JDict([type |-> Word("image")])>>)}

ContentMsg(role, content) == JDict([role |-> Word(role), content |-> content])

SchemaInit ==
    /\ schemaPc = "building"
    /\ schemaMsgs \in {<<ContentMsg("system", c), ContentMsg("user", JList(<<>>))>> :
                          c \in FirstContents}
    /\ schemaIssues = <<>>

\* The caller puts one more element into the content of the last message.
SchemaAppendItem(it) ==
    /\ schemaPc = "building"
    /\ Len(schemaMsgs[2].v["content"].v) < MaxElems
    /\ schemaMsgs' = [schemaMsgs EXCEPT ![2] =
                         ContentMsg("user", JList(Append(@.v["content"].v, it)))]
    /\ UNCHANGED <<schemaPc, schemaIssues, nonSchemaVars>>

\* _validate_messages_schema(messages, 1, "s", strict_typed=True)
SchemaCall ==
    /\ schemaPc = "building"
    /\ schemaPc' = IF SchemaRaises(JList(schemaMsgs)) THEN "raised" ELSE "returned"
    /\ schemaIssues' = IF SchemaRaises(JList(schemaMsgs)) THEN <<>>
                       ELSE ValidateMessagesSchema(JList(schemaMsgs), 1, "s", TRUE)
    /\ UNCHANGED <<schemaMsgs, nonSchemaVars>>

\* The messages given to the loose mode: a role that is allowed, misspelt,
\* absent, a number or a list, with a content that is absent, a string, a list
\* of elements that are no typed items, a mapping, null, a number or a boolean;
\* and one message that is no mapping.
RoleFields ==
    {[role |-> Word("user")], [role |-> Word("usr")], [role |-> JNum],
     [role |-> JList(<<Word("user")>>)], [other |-> JNull]}
LooseContents ==
    {Word("a"), JList(<<JNum, JNull>>), JDict([a |-> JNull]), JNull, JNum, JBool}
LooseMsgs ==
    {JDict(r) : r \in RoleFields}
    \cup {JDict([k \in (DOMAIN r) \cup {"content"} |-> IF k = "content" THEN c ELSE r[k]]) :
             r \in RoleFields, c \in LooseContents}
    \cup {Word("x")}

LooseInit ==
    /\ schemaPc = "building"
    /\ schemaMsgs = <<>>
    /\ schemaIssues = <<>>

\* The caller puts one more message into the list.
LooseAppendMsg(m) ==
    /\ schemaPc = "building"
    /\ Len(schemaMsgs) < MaxMsgs
    /\ schemaMsgs' = Append(schemaMsgs, m)
    /\ UNCHANGED <<schemaPc, schemaIssues, nonSchemaVars>>

\* _validate_messages_schema(messages, 1, "s", strict_typed=False)
LooseCall ==
    /\ schemaPc = "building"
    /\ schemaPc' = IF SchemaRaises(JList(schemaMsgs)) THEN "raised" ELSE "returned"
    /\ schemaIssues' = IF SchemaRaises(JList(schemaMsgs)) THEN <<>>
                       ELSE ValidateMessagesSchema(JList(schemaMsgs), 1, "s", FALSE)
    /\ UNCHANGED <<schemaMsgs, nonSchemaVars>>

\* The function is not called.
SchemaIdle ==
    /\ schemaPc = "returned"
    /\ schemaMsgs = <<>>
    /\ schemaIssues = <<>>

----------------------------------------------------------------------------
(* cli.py: the commands check, verify-system and check-dataset *)

\* The values of --fail-on the commands are run with.
CliThresholds == {"ERROR", "WARN", "INFO"}

\* The command starts: its options are parsed and its pass is about to run.
CliInit(cmd) ==
    /\ cliCmd = cmd
    /\ cliPc = "running"
    /\ cliFailOn \in CliThresholds
    /\ exitCode = 0

\* The state of the pass of the command, and the list `issues` it has built.
PassPc ==
    IF cliCmd = "check" THEN (IF cliFix /\ fixPc = "raised" THEN "raised" ELSE lintPc)
    ELSE IF cliCmd = "verify-system" THEN verPc ELSE dsPc
PassIssues ==
    IF cliCmd = "check" THEN issues ELSE IF cliCmd = "verify-system" THEN verIssues ELSE dsIssues

\* `if should_fail(issues, fail_on): raise typer.Exit(code=1)` and
\* `raise typer.Exit(code=0)`.
CliExitCode(iss, threshold) == IF ShouldFail(iss, Chars(threshold)) THEN 1 ELSE 0

\* The end of the command: the exit after the pass has returned its list, or
\* the exit status 1 of the interpreter when the pass has raised.
CliExit ==
    /\ cliPc = "running"
    /\ PassPc \in {"returned", "raised"}
    /\ cliPc' = "exited"
    /\ exitCode' = IF PassPc = "raised" THEN 1 ELSE CliExitCode(PassIssues, cliFailOn)
    /\ UNCHANGED <<cliCmd, cliFailOn, cliFix, nonCliVars>>

\* No command is run.
CliIdle ==
    /\ cliCmd = "none"
    /\ cliPc = "idle"
    /\ cliFailOn = "ERROR"
    /\ cliFix = FALSE
    /\ exitCode = 0

\* The lines of the files `check` is run on.
GoodRecord ==
    Record(Word("t1"), JList(<<SysMsg(JStr(<<"a">>)), UserMsg(JStr(<<"hi">>)),
                               AssistantMsg(JStr(<<"ok">>))>>))
UsrRecord == Record(Word("t2"), JList(<<UsrMsg(JStr(<<"hi">>))>>))
NonObjects == {JList(<<>>), Word("s"), JNum, JNull}
CheckLines ==
    {BadLine, BlankLine, JsonLine("canon", GoodRecord), JsonLine("compact", UsrRecord)}
    \cup {JsonLine("canon", v) : v \in NonObjects}

\* check: the options are parsed; with --fix, fix_jsonl(data, out) is about to
\* run, and lint_jsonl(target_path) after it.  fixIn holds the lines of `data`.
CheckInit ==
    /\ CliInit("check")
    /\ cliFix \in BOOLEAN
    /\ LintInit
    /\ lintCfg.profile_obj = DEFAULT_PROFILES["generic"]
    /\ lintCfg.mode = "train"
    /\ fixCfg = [strict_typed |-> lintCfg.strict_typed]
    /\ fixPc = IF cliFix THEN "first" ELSE "done"
    /\ fixIn \in SeqsUpTo(CheckLines, MaxLines)
    /\ fixPos = 0
    /\ fixOut = <<>>
    /\ fixIssues = <<>>
    /\ fixOut2 = <<>>
    /\ fixIssues2 = <<>>

\* `target_path`: the file lint_jsonl reads, `out` with --fix and `data` without.
CheckTarget == IF cliFix THEN fixOut ELSE fixIn

\* check --fix: one iteration of the loop of fix_jsonl over `data`.
CheckFixLine ==
    /\ cliCmd = "check" /\ cliPc = "running" /\ cliFix
    /\ fixPc = "first"
    /\ fixPos < Len(fixIn)
    /\ fixPos' = fixPos + 1
    /\ LET r == FixLineResult(fixIn[fixPos + 1], fixPos + 1, fixCfg.strict_typed) IN
       /\ fixIssues' = fixIssues \o r.issues
       /\ fixOut' = fixOut \o r.out
       /\ fixPc' = IF r.raised THEN "raised" ELSE "first"
    /\ UNCHANGED <<fixCfg, fixIn, fixOut2, fixIssues2, nonFixVars>>

\* check --fix: fix_jsonl returns (out, applied_fixes) at the end of `data`.
CheckFixReturn ==
    /\ cliCmd = "check" /\ cliPc = "running" /\ cliFix
    /\ fixPc = "first"
    /\ fixPos = Len(fixIn)
    /\ fixPc' = "done"
    /\ UNCHANGED <<fixCfg, fixIn, fixPos, fixOut, fixIssues, fixOut2, fixIssues2,
                   nonFixVars>>

\* check: one iteration of the loop of lint_jsonl over target_path.
CheckLintLine ==
    /\ cliCmd = "check" /\ cliPc = "running"
    /\ fixPc = "done"
    /\ line_no < Len(CheckTarget)
    /\ LintLine(CheckTarget[line_no + 1])

\* check: lint_jsonl returns its list at the end of target_path.
CheckLintReturn ==
    /\ cliCmd = "check" /\ cliPc = "running"
    /\ fixPc = "done"
    /\ line_no = Len(CheckTarget)
    /\ LintReturn

----------------------------------------------------------------------------
(* Specifications *)

\* The profile registry alone.
InitProfiles == ProfileInit /\ LintIdle /\ VerifyIdle /\ FixIdle /\ SfIdle /\ DsIdle /\ CliIdle /\ StrictIdle /\ SchemaIdle
SpecProfiles == InitProfiles /\ [][ProfileNext]_vars

\* One pass over a JSONL file of records: lint_jsonl or verify_system_visibility_jsonl.
InitRecords ==
    /\ ProfileIdle /\ FixIdle /\ SfIdle /\ DsIdle /\ CliIdle /\ StrictIdle /\ SchemaIdle
    /\ \/ LintInit /\ VerifyIdle
       \/ LintIdle /\ VerifyInit

RecordsNext ==
    \/ \E ln_text \in LintLines : LintLine(ln_text)
    \/ LintReturn
    \/ \E ln_text \in LintLines : VerifyLine(ln_text)
    \/ VerifyReturn

SpecRecords == InitRecords /\ [][RecordsNext]_vars

\* _mode_specific_checks under each mode string, on the records of files of
\* records of mapping messages.
InitModes ==
    /\ ProfileIdle /\ VerifyIdle /\ FixIdle /\ SfIdle /\ DsIdle /\ CliIdle /\ StrictIdle
    /\ SchemaIdle
    /\ lintCfg \in [mode: ModeStrings, profile_obj: {DEFAULT_PROFILES["generic"]},
                    strict_typed: {FALSE}]
    /\ lintPc = "running"
    /\ line_no = 0
    /\ line = NoLine
    /\ issues = <<>>

ModesNext ==
    \/ \E ln_text \in ModeLines : ModeCheck(ln_text)
    \/ LintReturn

SpecModes == InitModes /\ [][ModesNext]_vars

\* fix_jsonl on a file, and again on the file it wrote.
InitFix == ProfileIdle /\ LintIdle /\ VerifyIdle /\ FixInit /\ SfIdle /\ DsIdle /\ CliIdle /\ StrictIdle /\ SchemaIdle

FixNext ==
    \/ \E ln_text \in FixLines : FixLine(ln_text)
    \/ FixReturn
    \/ FixAgainLine
    \/ FixAgainReturn

SpecFix == InitFix /\ [][FixNext]_vars

\* should_fail on a list of issues.
InitShouldFail == ProfileIdle /\ LintIdle /\ VerifyIdle /\ FixIdle /\ SfInit /\ DsIdle /\ CliIdle /\ StrictIdle /\ SchemaIdle

ShouldFailNext ==
    \/ \E level \in IssueLevels : SfAppend(level)
    \/ SfCall

SpecShouldFail == InitShouldFail /\ [][ShouldFailNext]_vars

\* check_dataset_on_disk on a dataset of at most MaxRows rows.
InitDataset ==
    ProfileIdle /\ LintIdle /\ VerifyIdle /\ FixIdle /\ SfIdle /\ DsInit(DatasetCfgs) /\ CliIdle /\ StrictIdle /\ SchemaIdle

DatasetNext ==
    \/ DatasetOpen
    \/ \E r \in RowsOf(dsCfg.features) : TotalRows(ds) < MaxRows /\ DatasetRow(r)
    \/ DatasetSplitEnd
    \/ DatasetNextSplit
    \/ DatasetReturn

SpecDataset == InitDataset /\ [][DatasetNext]_vars

\* check_dataset_on_disk on a one-split dataset whose rows only carry a size.
InitSizes ==
    ProfileIdle /\ LintIdle /\ VerifyIdle /\ FixIdle /\ SfIdle /\ DsInit(SizeCfgs) /\ CliIdle /\ StrictIdle /\ SchemaIdle

SizesNext ==
    \/ DatasetOpen
    \/ \E r \in RowsOf(dsCfg.features) : TotalRows(ds) < MaxSizeRows /\ DatasetRow(r)
    \/ DatasetSplitEnd
    \/ DatasetReturn

SpecSizes == InitSizes /\ [][SizesNext]_vars

\* check_dataset_on_disk with and without expect_size on a two-split dataset
\* whose rows carry a width and a height.
InitExpect ==
    ProfileIdle /\ LintIdle /\ VerifyIdle /\ FixIdle /\ SfIdle /\ DsInit(ExpectCfgs) /\ CliIdle /\ StrictIdle /\ SchemaIdle

SpecExpect == InitExpect /\ [][DatasetNext]_vars

\* One run of check, verify-system or check-dataset: the first two with the
\* built-in profile `generic` and without --strict-typed, the last on a
\* dataset of the flat schema.
InitCli ==
    /\ ProfileIdle /\ FixIdle /\ SfIdle /\ StrictIdle /\ SchemaIdle
    /\ cliFix = FALSE
    /\ \/ CliInit("check") /\ LintInit /\ VerifyIdle /\ DsIdle
          /\ lintCfg.profile_obj = DEFAULT_PROFILES["generic"] /\ ~lintCfg.strict_typed
       \/ CliInit("verify-system") /\ LintIdle /\ VerifyInit /\ DsIdle
          /\ verCfg.profile_obj = DEFAULT_PROFILES["generic"] /\ ~verCfg.strict_typed
       \/ CliInit("check-dataset") /\ LintIdle /\ VerifyIdle /\ DsInit(DatasetCfgs)
          /\ dsCfg.fail_on_level = cliFailOn /\ dsCfg.features = FlatFeatures

CliNext == RecordsNext \/ DatasetNext \/ CliExit

SpecCli == InitCli /\ [][CliNext]_vars

\* One run of check on a file of at most MaxLines lines, without and with --fix.
InitCheck ==
    /\ ProfileIdle /\ VerifyIdle /\ SfIdle /\ DsIdle /\ StrictIdle /\ SchemaIdle
    /\ CheckInit

CheckNext ==
    \/ CheckFixLine
    \/ CheckFixReturn
    \/ CheckLintLine
    \/ CheckLintReturn
    \/ CliExit

SpecCheck == InitCheck /\ [][CheckNext]_vars

\* lint_dataset_on_disk on a one-split dataset of at most MaxStrictRows rows.
InitStrict ==
    /\ ProfileIdle /\ LintIdle /\ VerifyIdle /\ FixIdle /\ SfIdle /\ DsIdle /\ CliIdle
    /\ StrictInit /\ SchemaIdle

StrictNext ==
    \/ StrictOpen
    \/ \E r \in StrictRows : StrictReadRow(r)
    \/ StrictReturn

SpecStrict == InitStrict /\ [][StrictNext]_vars

\* _validate_messages_schema with strict_typed on a list of two messages.
InitSchema ==
    /\ ProfileIdle /\ LintIdle /\ VerifyIdle /\ FixIdle /\ SfIdle /\ DsIdle /\ CliIdle
    /\ StrictIdle /\ SchemaInit

SchemaNext ==
    \/ \E it \in TypedItems : SchemaAppendItem(it)
    \/ SchemaCall

SpecSchema == InitSchema /\ [][SchemaNext]_vars

\* _validate_messages_schema in loose mode on a list of at most MaxMsgs messages.
InitLoose ==
    /\ ProfileIdle /\ LintIdle /\ VerifyIdle /\ FixIdle /\ SfIdle /\ DsIdle /\ CliIdle
    /\ StrictIdle /\ LooseInit

LooseNext ==
    \/ \E m \in LooseMsgs : LooseAppendMsg(m)
    \/ LooseCall

SpecLoose == InitLoose /\ [][LooseNext]_vars

----------------------------------------------------------------------------
(* Claims about the profile registry *)

\* The three invariants of a profile.
ProfileInvariants(p) ==
    /\ p.require_system => p.system_visible
    /\ p.require_system => ~p.fold_system_into_user
    /\ p.fold_system_into_user => ~p.system_visible

ValidProfile(p) ==
    ProfileInvariants(p) /\ p.system_invisible_level \in {"WARN", "ERROR"}

\* The profile an override entry stands for: its fields over those of the
\* same-named built-in, or of the default profile.
EntryProfile(e) == Merged(DEFAULT_PROFILES, e.name, e.cfg)

ValidEntry(e) == e.mapping /\ ValidProfile(EntryProfile(e))

\* C1: load_profiles returns only registries all of whose profiles satisfy the
\* three invariants and have system_invisible_level in {WARN, ERROR}; and if
\* any override entry processed is invalid, no registry is returned, whatever
\* came before it in the file.
C1_RegistryValid ==
    /\ loadPc = "returned" => \A n \in DOMAIN registry : ValidProfile(registry[n])
    /\ (\E i \in 1..Len(entries) : ~ValidEntry(entries[i]))
          => loadPc = "raised" /\ DOMAIN registry = {}

\* C1 witness: the second entry of a file is invalid after a valid first entry
\* was merged, and the load has raised without returning a registry.
C1_Witness ==
    /\ Len(entries) = 2
    /\ ValidEntry(entries[1])
    /\ profs[entries[1].name] # DefaultProfile(entries[1].name)
    /\ entries[2].mapping /\ ~ValidProfile(EntryProfile(entries[2]))
    /\ loadPc = "raised"
    /\ DOMAIN registry = {}

Violates(p) == p.require_system /\ (~p.system_visible \/ p.fold_system_into_user)

\* C2 as stated: no Profile value with require_system=true together with
\* system_visible=false or fold_system_into_user=true is ever constructed.
C2_ConstructionRejects ==
    lastProfile # NoProfile => ~Violates(lastProfile)

\* C2 as amended: a Profile that violates an invariant is rejected by
\* validate() with a configuration error (construction does not reject it),
\* load_profiles validates every profile it constructs, and no returned
\* registry holds a profile with require_system=true together with
\* system_visible=false or fold_system_into_user=true.
C2_ValidateRejects ==
    /\ (lastProfile # NoProfile /\ lastValidate # "not called"
          /\ ~ProfileInvariants(lastProfile))
         => lastValidate \in {"ValueError: visible", "ValueError: fold", "ValueError: conflict",
                              "ValueError: level"}
    /\ (loadPc \in {"merging", "returned"} /\ lastProfile # NoProfile /\ Len(entries) > 0
          /\ entries[Len(entries)].mapping)
         => lastValidate = "ok" /\ ProfileInvariants(lastProfile)
    /\ loadPc = "returned" => \A n \in DOMAIN registry : ~Violates(registry[n])

\* C2 witness: a Profile with require_system=true and fold_system_into_user=true
\* was constructed, and validate() raised the configuration error.
C2_Witness ==
    /\ lastProfile # NoProfile
    /\ lastProfile.require_system /\ lastProfile.fold_system_into_user
    /\ lastValidate = "ValueError: fold"

----------------------------------------------------------------------------
(* Claims about the checks of a record *)

\* The issues of the line processed last.
RECURSIVE OfLine(_, _)
OfLine(iss, ln) ==
    IF iss = <<>> THEN <<>>
    ELSE (IF Head(iss).line = ln THEN <<Head(iss)>> ELSE <<>>) \o OfLine(Tail(iss), ln)

RecIssues == OfLine(issues, line_no)
VerRecIssues == OfLine(verIssues, verLineNo)

RECURSIVE CountCode(_, _)
CountCode(iss, code) ==
    IF iss = <<>> THEN 0
    ELSE (IF Head(iss).code = code THEN 1 ELSE 0) + CountCode(Tail(iss), code)

IsRecordLine(l) == l.kind = "json" /\ IsDict(l.val)
MessagesOf(l) == Get(l.val, "messages")
HasMessageList(l) == IsRecordLine(l) /\ IsList(MessagesOf(l))
Msgs(l) == MessagesOf(l).v
AllMappings(ms) == \A i \in 1..Len(ms) : IsDict(ms[i])
HasRole(m, r) == IsDict(m) /\ Get(m, "role") = Word(r)

\* C3: a record whose `messages` is not a list (or is absent) gets exactly one
\* issue, E003_SCHEMA_MISMATCH at path `messages`, in lint and in verify, and
\* verify does not call the renderer for it.
C3_NonListHardStop ==
    /\ (IsRecordLine(line) /\ ~IsList(MessagesOf(line)))
         => /\ lintPc # "raised"
            /\ RecIssues = <<Issue("ERROR", "E003_SCHEMA_MISMATCH", line_no,
                                   SampleId(line.val, line_no), "messages")>>
    /\ (IsRecordLine(verLine) /\ ~IsList(MessagesOf(verLine)))
         => /\ verPc # "raised"
            /\ VerRecIssues = <<Issue("ERROR", "E003_SCHEMA_MISMATCH", verLineNo,
                                      SampleId(verLine.val, verLineNo), "messages")>>
            /\ renderCalls = 0

\* C3 witness: the second line of a lint pass is a record without `messages`,
\* after a first line that produced issues.
C3_Witness ==
    /\ line_no = 2 /\ IsRecordLine(line) /\ ~HasKey(line.val, "messages")
    /\ Len(issues) > 1
    /\ lintCfg.strict_typed /\ lintCfg.mode = "infer"

\* C4 as stated: a record whose `messages` list holds an element that is no
\* mapping gets one E003_SCHEMA_MISMATCH at messages[i] per such element, and
\* the pass goes on: it does not abort.
C4_NonMappingSoftStop ==
    (HasMessageList(line) /\ ~AllMappings(Msgs(line)))
      => /\ lintPc # "raised"
         /\ \A i \in 1..Len(Msgs(line)) :
               ~IsDict(Msgs(line)[i]) =>
                   \E k \in 1..Len(RecIssues) :
                       /\ RecIssues[k].code = "E003_SCHEMA_MISMATCH"
                       /\ RecIssues[k].path = MsgPath(i - 1)

\* The system messages of a record, as the claims count them.
SystemCount(ms) == Cardinality({i \in 1..Len(ms) : HasRole(ms[i], "system")})
AssistantIdx(ms) == {i \in 1..Len(ms) : HasRole(ms[i], "assistant")}

\* C5 as stated: with require_system and at least one system message,
\* E002_SYSTEM_EMPTY is emitted, once, iff the trimmed concatenation of the
\* text of ALL system messages is empty.
C5_EmptyIffJoinedBlank ==
    (HasMessageList(line) /\ AllMappings(Msgs(line)) /\ lintCfg.profile_obj.require_system
        /\ SystemCount(Msgs(line)) > 0)
      => CountCode(RecIssues, "E002_SYSTEM_EMPTY")
            = IF Strip(JoinNL(SystemTexts(Msgs(line)))) = <<>> THEN 1 ELSE 0

\* C6 as stated: with require_system a record without a system message gets
\* exactly one E002_SYSTEM_REQUIRED and no E002_SYSTEM_EMPTY; no record gets
\* more than one system issue; without require_system none is emitted.
C6_SystemPresence ==
    HasMessageList(line) =>
        /\ CountCode(RecIssues, "E002_SYSTEM_REQUIRED")
             + CountCode(RecIssues, "E002_SYSTEM_EMPTY") <= 1
        /\ (lintCfg.profile_obj.require_system /\ SystemCount(Msgs(line)) = 0)
             => /\ CountCode(RecIssues, "E002_SYSTEM_REQUIRED") = 1
                /\ CountCode(RecIssues, "E002_SYSTEM_EMPTY") = 0
        /\ ~lintCfg.profile_obj.require_system
             => /\ CountCode(RecIssues, "E002_SYSTEM_REQUIRED") = 0
                /\ CountCode(RecIssues, "E002_SYSTEM_EMPTY") = 0

Min(S) == CHOOSE x \in S : \A y \in S : x <= y

\* C7 as stated: in mode infer a record gets E001_INFER_HAS_ASSISTANT iff some
\* message has role assistant, at messages[i].role for the first such i; in
\* mode train, or with no mode, it gets E001_TRAIN_MISSING_ASSISTANT at
\* `messages` iff no message has role assistant.
C7_ModeSupervision ==
    HasMessageList(line) =>
        LET idx == AssistantIdx(Msgs(line))
            sid == SampleId(line.val, line_no)
            leak == {k \in 1..Len(RecIssues) : RecIssues[k].code = "E001_INFER_HAS_ASSISTANT"}
            miss == {k \in 1..Len(RecIssues) : RecIssues[k].code = "E001_TRAIN_MISSING_ASSISTANT"}
        IN
        /\ lintCfg.mode = "infer" =>
              /\ (leak # {}) <=> (idx # {})
              /\ \A k \in leak : RecIssues[k].path = MsgPath(Min(idx) - 1) \o ".role"
        /\ lintCfg.mode \in {"train", ""} =>
              /\ (miss # {}) <=> (idx = {})
              /\ \A k \in miss : RecIssues[k].path = "messages"


\* C4, C6 and C7 on records all of whose messages are mappings: there the
\* presence and mode checks behave as C6 and C7 state.
Lemma_PolicyOnMappings ==
    (HasMessageList(line) /\ AllMappings(Msgs(line)))
      => lintPc # "raised" /\ C6_SystemPresence /\ C7_ModeSupervision

\* The blank test of lint made per system message: E002_SYSTEM_EMPTY is
\* emitted, once, iff some system message's own extracted text is blank.
Lemma_EmptyIffSomeBlank ==
    (HasMessageList(line) /\ AllMappings(Msgs(line)) /\ lintCfg.profile_obj.require_system
        /\ SystemCount(Msgs(line)) > 0)
      => CountCode(RecIssues, "E002_SYSTEM_EMPTY")
            = IF \E i \in 1..Len(Msgs(line)) :
                    /\ HasRole(Msgs(line)[i], "system")
                    /\ Strip(TypedTextOfContent(Get(Msgs(line)[i], "content"))) = <<>>
              THEN 1 ELSE 0

----------------------------------------------------------------------------
(* Claims about fix_jsonl *)

RECURSIVE Records(_)
Records(ls) ==
    IF ls = <<>> THEN <<>>
    ELSE (IF IsRecordLine(Head(ls)) THEN <<Head(ls)>> ELSE <<>>) \o Records(Tail(ls))

\* The input lines that are records, in order: the k-th is written as the
\* k-th output line.
WrittenInputs == Records(fixIn)

ListMessages(obj) == IF IsList(Get(obj, "messages")) THEN Get(obj, "messages").v ELSE <<>>

\* Rule (a) applies to message m.
RuleA(m) == IsDict(m) /\ HasKey(m, "role") /\ m.v["role"] = Word("usr")

\* Rule (b) applies to item it.
RuleB(it) == IsDict(it) /\ HasKey(it, "text") /\ ~HasKey(it, "type")

HasListContent(m) == IsDict(m) /\ HasKey(m, "content") /\ IsList(m.v["content"])

UsrCount(obj) == Cardinality({i \in 1..Len(ListMessages(obj)) : RuleA(ListMessages(obj)[i])})

UntypedCount(obj) ==
    LET ms == ListMessages(obj) IN
    Cardinality(UNION {{<<i, j>> : j \in {j \in 1..Len(ms[i].v["content"].v) :
                                            RuleB(ms[i].v["content"].v[j])}} :
                       i \in {i \in 1..Len(ms) : HasListContent(ms[i])}})

NoFixIssue(iss) ==
    CountCode(iss, "I901_FIX_ROLE_USR") = 0 /\ CountCode(iss, "I902_FIX_ADD_TYPE_TEXT") = 0

\* C8: fix_jsonl run on its own output writes the same file again and
\* reports no I901_FIX_ROLE_USR and no I902_FIX_ADD_TYPE_TEXT.
C8_FixIdempotent ==
    /\ fixPc # "raised again"
    /\ fixPc \in {"second", "done"} =>
          /\ fixOut2 = SubSeq(fixOut, 1, fixPos)
          /\ NoFixIssue(fixIssues2)
    /\ (fixPc = "done" /\ fixIn # <<>>) => fixOut2 = fixOut /\ fixIssues2 = <<>>

\* C8 witness: the first run made both rewrites, under strict-typed, and the
\* second run has finished over a two-line output.
C8_Witness ==
    /\ fixPc = "done" /\ fixCfg.strict_typed
    /\ Len(fixOut) = 2 /\ Len(fixOut2) = 2
    /\ CountCode(fixIssues, "I901_FIX_ROLE_USR") > 0
    /\ CountCode(fixIssues, "I902_FIX_ADD_TYPE_TEXT") > 0

\* Neither rewrite rule applies to the record.
Untouched(obj) == UsrCount(obj) = 0 /\ (fixCfg.strict_typed => UntypedCount(obj) = 0)

\* C9 as stated: a record to which neither rule applies is written
\* byte-identical to its input line.
C9_ByteIdentical ==
    \A k \in 1..Len(fixOut) :
        Untouched(WrittenInputs[k].val) => fixOut[k] = WrittenInputs[k]

\* C9 as amended: a record to which neither rule applies is written as the
\* json.dumps text of the same JSON value; the output line is byte-identical
\* to the input line exactly when the input line already was in that form.
C9_SameValueCanonicalText ==
    /\ Len(fixOut) = Len(WrittenInputs)
    /\ \A k \in 1..Len(fixOut) :
          Untouched(WrittenInputs[k].val) =>
              /\ JsonLoads(fixOut[k]) = JsonLoads(WrittenInputs[k])
              /\ (fixOut[k] = WrittenInputs[k]) <=> (WrittenInputs[k].form = "canon")

\* C9 witness: an untouched record whose input line was not in json.dumps
\* form has been written, with the same value and another text.
C9_Witness ==
    \E k \in 1..Len(fixOut) :
        /\ Untouched(WrittenInputs[k].val)
        /\ UntypedCount(WrittenInputs[k].val) > 0
        /\ WrittenInputs[k].form = "compact"
        /\ fixOut[k] # WrittenInputs[k]

\* y is x with rule (b) applied, or x itself.
ItemFrame(x, y) ==
    IF RuleB(x)
    THEN /\ IsDict(y)
         /\ DOMAIN y.v = DOMAIN x.v \cup {"type"}
         /\ y.v["type"] = Word("text")
         /\ \A key \in DOMAIN x.v : y.v[key] = x.v[key]
    ELSE y = x

\* b is a with rules (a) and (b) applied, and nothing else changed.
MsgFrame(a, b) ==
    IF ~IsDict(a) THEN b = a
    ELSE /\ IsDict(b)
         /\ DOMAIN b.v = DOMAIN a.v
         /\ \A key \in DOMAIN a.v \ {"role", "content"} : b.v[key] = a.v[key]
         /\ HasKey(a, "role") => b.v["role"] = IF RuleA(a) THEN Word("user") ELSE a.v["role"]
         /\ HasKey(a, "content") =>
               IF fixCfg.strict_typed /\ IsList(a.v["content"])
               THEN /\ IsList(b.v["content"])
                    /\ Len(b.v["content"].v) = Len(a.v["content"].v)
                    /\ \A j \in 1..Len(a.v["content"].v) :
                          ItemFrame(a.v["content"].v[j], b.v["content"].v[j])
               ELSE b.v["content"] = a.v["content"]

RecordFrame(a, b) ==
    /\ IsDict(b)
    /\ DOMAIN b.v = DOMAIN a.v
    /\ \A key \in DOMAIN a.v \ {"messages"} : b.v[key] = a.v[key]
    /\ HasKey(a, "messages") =>
          IF IsList(a.v["messages"])
          THEN /\ IsList(b.v["messages"])
               /\ Len(b.v["messages"].v) = Len(a.v["messages"].v)
               /\ \A i \in 1..Len(a.v["messages"].v) :
                     MsgFrame(a.v["messages"].v[i], b.v["messages"].v[i])
          ELSE b.v["messages"] = a.v["messages"]

\* C10: every written record equals its input record but for role "usr" made
\* "user" and, under strict-typed only, `type: "text"` added to the items of a
\* list content that have `text` and no `type`; one I901 is logged per role
\* rewritten, one I902 per type added, and no other INFO issue.
C10_OnlyTwoRewrites ==
    /\ Len(fixOut) = Len(WrittenInputs)
    /\ \A k \in 1..Len(fixOut) : RecordFrame(WrittenInputs[k].val, fixOut[k].val)
    /\ \A n \in 1..Len(fixIn) :
          LET iss == OfLine(fixIssues, n) IN
          IF IsRecordLine(fixIn[n])
          THEN /\ CountCode(iss, "I901_FIX_ROLE_USR") = UsrCount(fixIn[n].val)
               /\ CountCode(iss, "I902_FIX_ADD_TYPE_TEXT")
                     = IF fixCfg.strict_typed THEN UntypedCount(fixIn[n].val) ELSE 0
               /\ Len(iss) = CountCode(iss, "I901_FIX_ROLE_USR")
                               + CountCode(iss, "I902_FIX_ADD_TYPE_TEXT")
               /\ \A i \in 1..Len(iss) : iss[i].level = "INFO"
          ELSE \A i \in 1..Len(iss) : iss[i].level # "INFO"

\* C10 witness: under strict-typed a record with a "usr" role, an item
\* without `type`, an item whose `type` is null and a message that is no
\* mapping has been written, with one I901 and one I902 logged.
C10_Witness ==
    /\ fixCfg.strict_typed
    /\ Len(fixIn) = 1 /\ Len(fixOut) = 1
    /\ IsRecordLine(fixIn[1])
    /\ UsrCount(fixIn[1].val) = 1 /\ UntypedCount(fixIn[1].val) = 1
    /\ ~AllMappings(ListMessages(fixIn[1].val))
    /\ Len(fixIssues) = 2
    /\ fixOut[1].val # fixIn[1].val


----------------------------------------------------------------------------
(* Claims about verify_system_visibility_jsonl *)

\* The record of the line is one verify gets to render: a list of mappings,
\* under a profile that expects the system message to be visible.
RenderAttempted ==
    /\ HasMessageList(verLine) /\ AllMappings(Msgs(verLine))
    /\ verCfg.profile_obj.system_visible

\* C11 as stated: a failure of the render call, that of the fallback call
\* render(messages) included, gives exactly one E901_RENDER_PLUGIN_ERROR for the
\* record and the pass goes on; the renderer is called at most twice.
C11_RenderFailureRecovered ==
    RenderAttempted =>
        /\ verCfg.renderer \in {"kw_raises", "pos_raises"} =>
              /\ verPc # "raised"
              /\ CountCode(VerRecIssues, "E901_RENDER_PLUGIN_ERROR") = 1
        /\ verCfg.renderer \in {"kw_full", "pos_drop"} =>
              CountCode(VerRecIssues, "E901_RENDER_PLUGIN_ERROR") = 0
        /\ renderCalls <= 2

\* What of C11 the code does: a failure of the keyword call that is no
\* TypeError gives one E901 and the pass goes on; a failure of the fallback
\* call ends the pass with no E901.
Lemma_RenderFailure ==
    RenderAttempted =>
        /\ verCfg.renderer = "kw_raises" =>
              verPc # "raised" /\ CountCode(VerRecIssues, "E901_RENDER_PLUGIN_ERROR") = 1
        /\ verCfg.renderer = "pos_raises" =>
              verPc = "raised" /\ CountCode(VerRecIssues, "E901_RENDER_PLUGIN_ERROR") = 0

\* s is a contiguous part of t.
IsSubstring(t, s) ==
    s = <<>> \/ \E i \in 1..Len(t) : \E j \in i..Len(t) : SubSeq(t, i, j) = s

\* The texts of the system messages of a list of mappings, as the claim joins them.
RECURSIVE SystemTextsOf(_)
SystemTextsOf(ms) ==
    IF ms = <<>> THEN <<>>
    ELSE (IF HasRole(Head(ms), "system")
          THEN <<TypedTextOfContent(Get(Head(ms), "content"))>> ELSE <<>>)
         \o SystemTextsOf(Tail(ms))

\* C12: verify emits E002_SYSTEM_NOT_VISIBLE for a record iff the profile has
\* system_visible, the render succeeded, and the trimmed joined system text is
\* non-empty and no substring of the rendered text; that issue has the level
\* profile.system_invisible_level and every other issue has level ERROR; with
\* system_visible false the presence check still runs, the renderer is not
\* called and no visibility issue is emitted.
C12_SystemNotVisible ==
    /\ \A k \in 1..Len(verIssues) :
          verIssues[k].level = IF verIssues[k].code = "E002_SYSTEM_NOT_VISIBLE"
                               THEN verCfg.profile_obj.system_invisible_level
                               ELSE "ERROR"
    /\ HasMessageList(verLine) =>
          LET ms == Msgs(verLine)
              r == Render(verCfg.renderer, ms)
              rendered == RenderAttempted /\ verPc # "raised" /\ r.outcome = "prompt"
              text == Strip(JoinNL(SystemTextsOf(ms)))
          IN
          /\ CountCode(VerRecIssues, "E002_SYSTEM_NOT_VISIBLE")
                = IF rendered /\ text # <<>> /\ ~IsSubstring(r.prompt, text) THEN 1 ELSE 0
          /\ ~verCfg.profile_obj.system_visible =>
                /\ renderCalls = 0
                /\ (AllMappings(ms) /\ verCfg.profile_obj.require_system
                      /\ SystemCount(ms) = 0)
                     => CountCode(VerRecIssues, "E002_SYSTEM_REQUIRED") = 1

\* C12 witness: under a profile whose system_invisible_level is WARN a renderer
\* that drops the system message gave a WARN E002_SYSTEM_NOT_VISIBLE on the
\* second line, after a line with an ERROR issue.
C12_Witness ==
    /\ verLineNo = 2 /\ RenderAttempted /\ verPc = "running"
    /\ verCfg.profile_obj.system_invisible_level = "WARN"
    /\ verCfg.renderer = "pos_drop"
    /\ \E k \in 1..Len(VerRecIssues) :
          VerRecIssues[k].code = "E002_SYSTEM_NOT_VISIBLE" /\ VerRecIssues[k].level = "WARN"
    /\ \E k \in 1..Len(verIssues) : verIssues[k].line = 1 /\ verIssues[k].level = "ERROR"


----------------------------------------------------------------------------
(* Claims about should_fail and the exit status *)

\* The spellings of a level name in any mix of upper and lower case.
Spellings(w) ==
    {s \in [1..Len(Chars(w)) -> DOMAIN LowerCase \cup {LowerCase[u] : u \in DOMAIN LowerCase}] :
        \A i \in 1..Len(Chars(w)) : s[i] \in {Chars(w)[i], LowerCase[Chars(w)[i]]}}

\* The rank of a threshold name, as the claim gives it.
ThresholdRank(t) ==
    IF t \in Spellings("INFO") THEN 0
    ELSE IF t \in Spellings("WARN") THEN 1
    ELSE 2

\* The rank of an issue, as the claim gives it.
RankOf(i) == IF i.level = "INFO" THEN 0 ELSE IF i.level = "WARN" THEN 1 ELSE 2

\* C13: should_fail returns true iff some issue's rank (INFO < WARN < ERROR, an
\* unrecognized level ranking as ERROR) is at least the threshold's rank, an
\* empty, missing or unrecognized threshold name counting as ERROR and names
\* matched without regard to case; it returns false for an empty list and
\* leaves the list unchanged.
C13_ShouldFail ==
    /\ [](sfPc = "returned" =>
            /\ sfResult <=> (\E k \in 1..Len(sfIssues) :
                                RankOf(sfIssues[k]) >= ThresholdRank(sfFailOn))
            /\ sfIssues = <<>> => ~sfResult)
    /\ [][sfPc' = "returned" => sfIssues' = sfIssues]_vars

\* C13 witness: should_fail returned true under the threshold "Warn" for the
\* list of an INFO and a WARN issue.
C13_Witness ==
    /\ sfPc = "returned" /\ sfResult
    /\ sfFailOn = Chars("Warn")
    /\ Len(sfIssues) = 2
    /\ sfIssues[1].level = "INFO" /\ sfIssues[2].level = "WARN"

\* The issues the command has printed: the list its pass returned, and nothing
\* when the pass raised.
Surfaced == IF PassPc = "returned" THEN PassIssues ELSE <<>>

\* C14: the issue list of a pass is the same for every fail-on threshold, and
\* the command exits with code 1 iff should_fail(surfaced issues, threshold)
\* and with code 0 otherwise.
C14_ThresholdGatesExit ==
    /\ cliPc = "exited" =>
          exitCode = IF ShouldFail(Surfaced, Chars(cliFailOn)) THEN 1 ELSE 0
    /\ (cliCmd = "check-dataset" /\ dsPc = "running" /\ row_no > 0) =>
          \A t \in CliThresholds :
             RowResult(row, row_no, split_name, [dsCfg EXCEPT !.fail_on_level = t])
                = RowResult(row, row_no, split_name, dsCfg)

\* What holds of C14: a command whose pass returned exits with the code
\* should_fail gives for the returned list, and no row's or split's issues
\* depend on fail_on_level.
Lemma_ExitAfterReturn ==
    /\ (cliPc = "exited" /\ PassPc = "returned") =>
          exitCode = IF ShouldFail(PassIssues, Chars(cliFailOn)) THEN 1 ELSE 0
    /\ (cliCmd = "check-dataset" /\ dsPc \in {"running", "split done"}) =>
          \A t \in CliThresholds :
             /\ row_no > 0 =>
                   RowResult(row, row_no, split_name, [dsCfg EXCEPT !.fail_on_level = t])
                      = RowResult(row, row_no, split_name, dsCfg)
             /\ SplitIssues(seen_sizes, split_name, [dsCfg EXCEPT !.fail_on_level = t])
                   = SplitIssues(seen_sizes, split_name, dsCfg)

----------------------------------------------------------------------------
(* Claims about check_dataset_on_disk *)

\* A step of the row loop that stays in the loop, and the issues it appended.
RowStep == dsPc = "running" /\ dsPc' = "running" /\ Len(ds') = Len(ds) /\ ds' # ds
Appended == SubSeq(dsIssues', Len(dsIssues) + 1, Len(dsIssues'))
WithCode(iss, code) == SelectSeq(iss, LAMBDA i : i.code = code)

\* The paths of the null leaves of a value: a key step joined by ".", a
\* sequence step written [i].
RECURSIVE NullLeafPaths(_, _)
NullLeafPaths(obj, path) ==
    IF obj.t = "null" THEN {path}
    ELSE IF obj.t = "dict"
    THEN UNION {NullLeafPaths(obj.v[key], IF path = "" THEN key ELSE path \o "." \o key) :
                   key \in DOMAIN obj.v}
    ELSE IF obj.t = "list"
    THEN UNION {NullLeafPaths(obj.v[i], path \o "[" \o ToString(i - 1) \o "]") :
                   i \in 1..Len(obj.v)}
    ELSE {}

\* C15: for every row the checker emits exactly one E102_DATASET_NONE_VALUE
\* per null leaf reachable through nested mappings and sequences, at the
\* leaf's dotted/bracketed path, with the 1-based row number and the row's id
\* value, or <split>:<row_number> when the row has no id column; a row with
\* no null leaf gets none.
C15_NestedNullScan ==
    [][RowStep =>
         LET e102 == WithCode(Appended, "E102_DATASET_NONE_VALUE")
             leaves == NullLeafPaths(row', "")
         IN
         /\ row_no' = row_no + 1
         /\ Len(e102) = Cardinality(leaves)
         /\ {e102[k].path : k \in 1..Len(e102)} = leaves
         /\ \A k \in 1..Len(e102) :
               /\ e102[k].line = row_no'
               /\ e102[k].sample_id =
                     IF \E c \in 1..Len(dsCfg.features) : dsCfg.features[c].name = "id"
                     THEN PyStr(row'.v["id"])
                     ELSE split_name \o ":" \o ToString(row_no')]_vars

\* C15 witness: the second row of split `validation`, a row without an id
\* column, has null leaves under a mapping and inside a sequence, and the
\* issue of the leaf `ann.pts[1].x` is in the list.
C15_Witness ==
    /\ dsPc = "running" /\ split_name = "validation" /\ row_no = 2
    /\ Cardinality(NullLeafPaths(row, "")) = 3
    /\ \E k \in 1..Len(dsIssues) :
          /\ dsIssues[k].code = "E102_DATASET_NONE_VALUE"
          /\ dsIssues[k].path = "ann.pts[1].x"
          /\ dsIssues[k].line = 2
          /\ dsIssues[k].sample_id = "validation:2"

\* The number of rows the tally holds for a size.
TallyOf(seen, size) ==
    IF \E i \in 1..Len(seen) : seen[i][1] = size
    THEN seen[CHOOSE i \in 1..Len(seen) : seen[i][1] = size][2]
    ELSE 0

\* The size the priority order of the claim gives a row, <<>> when nothing
\* resolves: the explicit columns when both hold integers, else the first
\* image column, in schema order, that has intrinsic dimensions or is a
\* mapping with integral width and height.
SizeByPriority(r, features) ==
    LET names == {features[c].name : c \in 1..Len(features)}
        wc == IF "image_w" \in names THEN "image_w" ELSE "width"
        hc == IF "image_h" \in names THEN "image_h" ELSE "height"
        gives(c) == LET img == r.v[features[c].name] IN
                    /\ features[c].kind = "Image"
                    /\ \/ img.t = "image"
                       \/ /\ img.t = "dict"
                          /\ "width" \in DOMAIN img.v /\ img.v["width"].t = "int"
                          /\ "height" \in DOMAIN img.v /\ img.v["height"].t = "int"
        sizeOf(c) == LET img == r.v[features[c].name] IN
                     IF img.t = "image" THEN img.size
                     ELSE <<img.v["width"].v, img.v["height"].v>>
    IN
    IF wc \in names /\ hc \in names /\ r.v[wc].t = "int" /\ r.v[hc].t = "int"
    THEN <<r.v[wc].v, r.v[hc].v>>
    ELSE IF \E c \in 1..Len(features) : gives(c)
    THEN sizeOf(CHOOSE c \in 1..Len(features) : gives(c) /\ \A d \in 1..(c - 1) : ~gives(d))
    ELSE <<>>

\* The sizes of the rows of the datasets read.
SizeValues == {<<w, h>> : w \in {1, 2, 3, 4, 5, 6, 7, 64, 512, 640}, h \in {10, 64, 480, 512}}

\* C16: the size of a row is that of the explicit width/height columns when
\* both hold integers, and otherwise that of the first image column, in
\* schema order, that resolves; explicit columns win over an image column of
\* another size. A row for which nothing resolves gets exactly one row-level
\* W202_IMAGE_SIZE_UNKNOWN under either policy and adds nothing to the tally.
C16_SizeResolution ==
    [][RowStep =>
         LET size == SizeByPriority(row', dsCfg.features)
             w202 == WithCode(Appended, "W202_IMAGE_SIZE_UNKNOWN")
         IN
         /\ \A s \in SizeValues :
               TallyOf(seen_sizes', s) = TallyOf(seen_sizes, s) + (IF s = size THEN 1 ELSE 0)
         /\ \A i \in 1..Len(seen_sizes') : seen_sizes'[i][1] \in SizeValues
         /\ Len(w202) = IF size = <<>> THEN 1 ELSE 0
         /\ \A k \in 1..Len(w202) : w202[k].line = row_no' /\ w202[k].level = "WARN"
         /\ (size # <<>> /\ dsCfg.expect_size # <<>>) =>
               Len(WithCode(Appended, "E201_IMAGE_SIZE_MISMATCH"))
                  = IF size = dsCfg.expect_size THEN 0 ELSE 1]_vars

\* C16 witness: a row whose explicit columns hold 512 and 512 and whose image
\* is 640x480 was tallied as 512x512, after a row for which nothing resolved.
C16_Witness ==
    /\ dsPc = "running" /\ row_no = 2
    /\ dsCfg.features = MixedFeatures
    /\ row.v["image"].t = "image" /\ row.v["image"].size = <<640, 480>>
    /\ row.v["image_w"] = JInt(512) /\ row.v["height"] = JInt(512)
    /\ seen_sizes = <<<<<<512, 512>>, 1>>>>
    /\ Len(WithCode(dsIssues, "W202_IMAGE_SIZE_UNKNOWN")) = 1

\* The step that ends a split, and the rows of the split whose size is s.
SplitEndStep == dsPc = "running" /\ dsPc' = "split done"
RowsOfSize(s) ==
    {i \in 1..row_no : SizeByPriority(CurrentSplit.rows[i], dsCfg.features) = s}

\* C17: under size policy `consistent`, at the end of a split, more than one
\* distinct resolved size gives exactly one W201_IMAGE_SIZE_INCONSISTENT for
\* the split, listing min(5, number of distinct sizes) of the most frequent
\* sizes, each with its row count, in non-increasing count order; exactly one
\* distinct size gives no split-level issue; no resolved size gives exactly one
\* split-level W202_IMAGE_SIZE_UNKNOWN. Under policy `any` there is none.
C17_SizePolicy ==
    [][SplitEndStep =>
         LET sizes == {SizeByPriority(CurrentSplit.rows[i], dsCfg.features) :
                          i \in 1..row_no} \ {<<>>}
             n == Cardinality(sizes)
         IN
         IF dsCfg.size_policy \notin {"consistent", "Consistent"} \/ n = 1
         THEN Appended = <<>>
         ELSE IF n = 0
         THEN /\ Len(Appended) = 1
              /\ Appended[1].code = "W202_IMAGE_SIZE_UNKNOWN"
              /\ Appended[1].sample_id = split_name
         ELSE /\ Len(Appended) = 1
              /\ Appended[1].code = "W201_IMAGE_SIZE_INCONSISTENT"
              /\ Appended[1].sample_id = split_name
              /\ LET top == Appended[1].top IN
                 /\ Len(top) = IF n < 5 THEN n ELSE 5
                 /\ \A i \in 1..Len(top) :
                       /\ top[i][1] \in sizes
                       /\ top[i][2] = Cardinality(RowsOfSize(top[i][1]))
                       /\ \A j \in 1..Len(top) : i < j =>
                             top[i][1] # top[j][1] /\ top[i][2] >= top[j][2]
                       /\ \A s \in sizes \ {top[j][1] : j \in 1..Len(top)} :
                             Cardinality(RowsOfSize(s)) <= top[i][2]]_vars

\* C17 witness: a split of six rows of six distinct sizes ended under policy
\* `consistent` with one W201 that lists five of them.
C17_Witness ==
    /\ dsPc = "split done" /\ dsCfg.size_policy = "consistent"
    /\ Len(seen_sizes) = 6 /\ row_no = 6
    /\ Len(dsIssues) = 1
    /\ dsIssues[1].code = "W201_IMAGE_SIZE_INCONSISTENT"
    /\ Len(dsIssues[1].top) = 5

\* The coordinate keys of the datasets read whose names end, in any case, in
\* x, x0, x1 or cx, and those whose names end in y, y0, y1 or cy.
XKeys == {"x0", "x1", "CX"}
YKeys == {"y0", "y1"}

\* C18: a row gets a W301_COORD_OUT_OF_BOUNDS warning iff the coordinate field
\* path resolves to a mapping, every listed key yields a numeric value, the
\* size of the row resolves, and some x-key has a value outside [0, width] or
\* some y-key a value outside [0, height], both bounds inclusive; at most one
\* warning per row, and keys of other names never trigger it.
C18_CoordBounds ==
    [][RowStep =>
         LET field == dsCfg.coord_field
             keys == dsCfg.coord_keys
             size == SizeByPriority(row', dsCfg.features)
             first == IF field # <<>> /\ field[1] \in DOMAIN row'.v
                      THEN row'.v[field[1]] ELSE JInt(0)
             target == IF Len(field) = 1 THEN first
                       ELSE IF first.t = "dict" /\ field[2] \in DOMAIN first.v
                       THEN first.v[field[2]] ELSE JInt(0)
             value(k) == IF k \in DOMAIN target.v THEN target.v[k] ELSE JNull
             outside(v, side) == ~(0 <= v /\ v <= side)
             due == /\ field # <<>> /\ keys # <<>>
                    /\ target.t = "dict"
                    /\ \A i \in 1..Len(keys) : value(keys[i]).t \in {"int", "float"}
                    /\ size # <<>>
                    /\ \E i \in 1..Len(keys) :
                          \/ keys[i] \in XKeys /\ outside(value(keys[i]).v, size[1])
                          \/ keys[i] \in YKeys /\ outside(value(keys[i]).v, size[2])
             w301 == WithCode(Appended, "W301_COORD_OUT_OF_BOUNDS")
         IN
         /\ Len(w301) = IF due THEN 1 ELSE 0
         /\ \A k \in 1..Len(w301) : w301[k].line = row_no' /\ w301[k].level = "WARN"]_vars

\* C18 witness: a 512x512 row with x1 = 512 and y1 = 480 got no warning, and
\* the next row, of the same size with x1 = 900 and y1 = 950, got exactly one.
C18_Witness ==
    /\ dsPc = "running" /\ row_no = 2
    /\ dsCfg.coord_keys = <<"x0", "y0", "x1", "y1">>
    /\ SizeByPriority(CurrentSplit.rows[1], dsCfg.features) = <<512, 512>>
    /\ CurrentSplit.rows[1].v["coordinates"] = Coords(JInt(0), JInt(0), JInt(512), JInt(480))
    /\ SizeByPriority(row, dsCfg.features) = <<512, 512>>
    /\ row.v["coordinates"] = Coords(JInt(50), JInt(80), JInt(900), JInt(950))
    /\ Len(WithCode(dsIssues, "W301_COORD_OUT_OF_BOUNDS")) = 1
    /\ WithCode(dsIssues, "W301_COORD_OUT_OF_BOUNDS")[1].line = 2

----------------------------------------------------------------------------
(* Claims about lint_dataset_on_disk of tests/dataset_checks.py *)

\* A step of the row loop, the row it read and the issues it appended.
StrictStep == strictPc = "running" /\ strictRows' # strictRows
StrictAppended == SubSeq(strictIssues', Len(strictIssues) + 1, Len(strictIssues'))

\* The outcomes of the claim for the row a step read, a row with integer
\* width and height and four non-null coordinates; `exceeding` tells which
\* coordinates count as exceeding the image: the x-coordinates above the
\* width and the y-coordinates above the height, among those of `xs` and `ys`.
StrictOutcomes(xs, ys) ==
    LET r == strictRows'[Len(strictRows')]
        c == r.v["coordinates"]
        new == StrictAppended
        count(code) == Len(WithCode(new, code))
    IN
    (/\ r.v["image_w"].t = "int" /\ r.v["image_h"].t = "int" /\ c.t = "dict"
     /\ \A k \in {"x0", "y0", "x1", "y1"} : c.v[k].t # "null")
    => IF \E k \in {"x0", "y0", "x1", "y1"} : c.v[k].t \notin {"int", "float"}
       THEN Len(new) = 1 /\ new[1].code = "E102_coordinates_BAD_TYPE"
       ELSE LET iw == r.v["image_w"].v
                ih == r.v["image_h"].v
                offending == {c.v[k].v : k \in {k \in xs : c.v[k].v > iw}}
                             \cup {c.v[k].v : k \in {k \in ys : c.v[k].v > ih}}
                largest == CHOOSE m \in offending : \A v \in offending : v <= m
                alternate == iw <= 600 /\ ih <= 600 /\ largest >= 800 /\ largest <= 1200
            IN
            /\ count("E102_coordinates_BAD_TYPE") = 0
            /\ count("E103_coordinates_NEGATIVE")
                  = IF \E k \in {"x0", "y0", "x1", "y1"} : c.v[k].v < 0 THEN 1 ELSE 0
            /\ count("E105_coordinates_SPACE_MISMATCH")
                  = IF offending # {} /\ alternate THEN 1 ELSE 0
            /\ count("E104_coordinates_OUT_OF_BOUNDS")
                  = IF offending # {} /\ ~alternate THEN 1 ELSE 0

\* C19: for a row with integer width and height and four non-null
\* coordinates, non-numeric coordinates give only the bad-type code; a
\* coordinate exceeding the image gives exactly one of the two exceed codes,
\* E105 exactly when both sides are <= 600 and the offending coordinate lies in
\* [800, 1200] and E104 otherwise; a negative coordinate gives E103.
C19_StrictOutcomes ==
    [][StrictStep => StrictOutcomes({"x0", "x1"}, {"y0", "y1"})]_vars

\* What holds of C19: the same outcomes when only x1 and y1 count as
\* exceeding the image.
Lemma_StrictFarCorner ==
    [][StrictStep => StrictOutcomes({"x1"}, {"y1"})]_vars

----------------------------------------------------------------------------
(* Claims about the strict-typed schema mode *)

\* The issues the claim gives element j (from 0) of the content of message i,
\* as <<code, path>> pairs; `untyped` tells which values of `type` count as
\* no type, besides an absent key.
ElementOutcome(it, i, j, untyped) ==
    LET p == "messages[" \o ToString(i) \o "].content[" \o ToString(j) \o "]" IN
    IF it.t # "dict" \/ "type" \notin DOMAIN it.v THEN <<<<"E003_SCHEMA_MISMATCH", p>>>>
    ELSE IF it.v["type"] \in untyped THEN <<<<"E003_SCHEMA_MISMATCH", p>>>>
    ELSE IF it.v["type"] = Word("text")
    THEN IF "text" \in DOMAIN it.v /\ it.v["text"].t = "str" THEN <<>>
         ELSE <<<<"E012_BAD_FIELD_TYPE", p \o ".text">>>>
    ELSE IF it.v["type"] = Word("image")
    THEN IF "image" \in DOMAIN it.v THEN <<>> ELSE <<<<"E011_MISSING_TYPE_FIELDS", p>>>>
    ELSE <<>>

\* The issues the claim gives message i (from 0), a mapping with a content key.
RECURSIVE ElementsOutcome(_, _, _, _)
ElementsOutcome(items, i, j, untyped) ==
    IF j >= Len(items) THEN <<>>
    ELSE ElementOutcome(items[j + 1], i, j, untyped) \o ElementsOutcome(items, i, j + 1, untyped)

MessageOutcome(m, i, untyped) ==
    IF m.v["content"].t # "list"
    THEN <<<<"E003_SCHEMA_MISMATCH", "messages[" \o ToString(i) \o "].content">>>>
    ELSE ElementsOutcome(m.v["content"].v, i, 0, untyped)

\* The list returned is that of the claim's outcomes, message after message.
SchemaOutcomes(untyped) ==
    schemaPc = "returned" =>
       [k \in 1..Len(schemaIssues) |-> <<schemaIssues[k].code, schemaIssues[k].path>>]
          = MessageOutcome(schemaMsgs[1], 0, untyped) \o MessageOutcome(schemaMsgs[2], 1, untyped)

\* C20: in strict-typed mode a non-list content yields one E003 at
\* messages[i].content; in a list content an element that is no mapping, or
\* a mapping with no type, yields one E003 at messages[i].content[j] and
\* nothing else; a text element yields E012 at ...content[j].text iff its text
\* is no string; an image element yields E011 iff it has no image key; an
\* element of any other type yields no issue; every element of every message
\* is checked. A null type is counted as no type.
C20_StrictTypedSchema == SchemaOutcomes({JNull})

\* What holds of C20: the same outcomes when an empty string as type is
\* counted as no type too.
Lemma_StrictTypedFalsyType == SchemaOutcomes({JNull, JStr(<<>>)})

----------------------------------------------------------------------------
(* Claims about the merge of override entries *)

\* The profile the claim gives an override entry: each field from the entry
\* when it is there, else from the built-in of that name, else from the
\* default profile.
MergedByClaim(e) ==
    LET base == IF e.name \in BuiltinNames
                THEN DEFAULT_PROFILES[e.name]
                ELSE [require_system |-> TRUE, system_visible |-> TRUE,
                      fold_system_into_user |-> FALSE, system_invisible_level |-> "ERROR"]
    IN [k \in FieldNames \cup {"name"} |->
           IF k = "name" THEN e.name
           ELSE IF k \in DOMAIN e.cfg THEN e.cfg[k]
           ELSE base[k]]

\* C21: load_profiles builds the profile of an override entry field by field,
\* from the entry where the field is present and else from the same-named
\* built-in or the default profile; the merged profile replaces the registry
\* entry of that name, the other profiles are returned unchanged, and no load,
\* successful or failed, modifies the module-level built-in table.
C21_MergeFrame ==
    /\ builtinTable = [n \in BuiltinNames |->
                          [name |-> n, require_system |-> TRUE, system_visible |-> TRUE,
                           fold_system_into_user |-> FALSE, system_invisible_level |-> "ERROR"]]
    /\ (loadPc \in {"merging", "raised"} /\ entries # <<>> /\ entries[Len(entries)].mapping)
          => lastProfile = MergedByClaim(entries[Len(entries)])
    /\ loadPc = "returned" =>
          /\ DOMAIN registry = BuiltinNames \cup {entries[i].name : i \in 1..Len(entries)}
          /\ \A i \in 1..Len(entries) : registry[entries[i].name] = MergedByClaim(entries[i])
          /\ \A n \in BuiltinNames \ {entries[i].name : i \in 1..Len(entries)} :
                registry[n] = builtinTable[n]

\* C21 witness: a load returned a registry in which the built-in `generic`
\* has WARN from its entry and the other fields from the built-in, a new
\* profile has require_system false from its entry, and `my-vlm` is as built in.
C21_Witness ==
    /\ loadPc = "returned" /\ Len(entries) = 2
    /\ entries[1].name = "generic" /\ DOMAIN entries[1].cfg = {"system_invisible_level"}
    /\ registry["generic"].system_invisible_level = "WARN"
    /\ registry["generic"].require_system
    /\ entries[2].name = "new" /\ DOMAIN entries[2].cfg = {"require_system"}
    /\ ~registry["new"].require_system /\ registry["new"].system_visible
    /\ registry["my-vlm"] = builtinTable["my-vlm"]

\* The parse-error issue of line k.
BadJsonIssue(k) == Issue("ERROR", "E004_BAD_JSON", k, "line_" \o ToString(k), "$")

\* The lines of a file that parse to a record, in the order of the file.
ParsedLines(file) == SelectSeq(file, LAMBDA l : l.kind = "json" /\ l.val.t = "dict")

\* The `id` of each record of a sequence of lines.
IdsOf(file) == [i \in 1..Len(file) |-> Get(file[i].val, "id")]

\* C22: lint_jsonl and fix_jsonl treat a line that is not valid JSON alike:
\* the issues of that line are exactly one E004_BAD_JSON with the 1-based line
\* number, sample id line_<n> and path $; the pass goes on to the next line;
\* fix_jsonl writes nothing for the line, and its output holds the records it
\* has read, in the order of the input, one per line.
C22_BadJsonPolicy ==
    /\ \A k \in 1..line_no :
          CheckTarget[k].kind = "bad" => OfLine(issues, k) = <<BadJsonIssue(k)>>
    /\ line.kind = "bad" => lintPc # "raised"
    /\ \A k \in 1..fixPos :
          fixIn[k].kind = "bad" => OfLine(fixIssues, k) = <<BadJsonIssue(k)>>
    /\ (fixPos > 0 /\ fixIn[fixPos].kind = "bad") => fixPc # "raised"
    /\ \A i \in 1..Len(fixOut) : fixOut[i].kind = "json"
    /\ IdsOf(fixOut) = IdsOf(ParsedLines(SubSeq(fixIn, 1, fixPos)))

\* A fix pass has ended on a file whose first line is not valid JSON and whose
\* second line is a record, which alone is written.
C22_Witness ==
    /\ cliFix /\ fixPc = "done" /\ lintPc = "returned"
    /\ Len(fixIn) = 2 /\ fixIn[1].kind = "bad" /\ fixIn[2].kind = "json"
    /\ Len(fixOut) = 1 /\ Len(fixIssues) >= 1

\* The lines of a file that are not valid JSON.
BadLines(file) == SelectSeq(file, LAMBDA l : l.kind = "bad")

\* C23: when check has exited after lint_jsonl returned, the surfaced list
\* holds one E004_BAD_JSON per unparseable line of the input file, without
\* and with --fix, and an input with such a line gives exit code 1.
C23_ParseErrorsSurfaced ==
    (cliPc = "exited" /\ lintPc = "returned") =>
        /\ Len(WithCode(issues, "E004_BAD_JSON")) = Len(BadLines(fixIn))
        /\ BadLines(fixIn) # <<>> => exitCode = 1

\* Without --fix the statement of C23 holds.
Lemma_ParseErrorsSurfacedNoFix == ~cliFix => C23_ParseErrorsSurfaced

\* The line numbers of a list of issues never decrease along the list.
NonDecreasing(iss) == \A i \in 1..Len(iss) - 1 : iss[i].line <= iss[i + 1].line

\* C24: the list of each pass is in line/row order: the line numbers of the
\* issues of lint_jsonl and of verify_system_visibility_jsonl never decrease,
\* and within the first split of a dataset the row numbers of the issues never
\* decrease, the split-level issue included.
C24_OriginalOrder ==
    /\ NonDecreasing(issues)
    /\ NonDecreasing(verIssues)
    /\ Len(ds) <= 1 => NonDecreasing(dsIssues)

\* The part of C24 about lint and verify.
Lemma_LinesInOrder == NonDecreasing(issues) /\ NonDecreasing(verIssues)

\* The parts of C24 that hold of the dataset check: the list only grows at its
\* end, so the issues of an earlier split precede those of a later one, and
\* the row-level issues of a split are in row order.
Lemma_RowsInOrder ==
    [][/\ Len(dsIssues') >= Len(dsIssues)
       /\ SubSeq(dsIssues', 1, Len(dsIssues)) = dsIssues
       /\ RowStep => /\ \A i \in 1..Len(Appended) : Appended[i].line = row_no'
                     /\ (Len(ds) = 1 /\ dsIssues # <<>>) =>
                            dsIssues[Len(dsIssues)].line <= row_no']_vars

\* A line that parses as JSON to a value that is no object.
NonObjectLine(l) == l.kind = "json" /\ ~IsDict(l.val)

\* C25: a line that is JSON but no object is a recoverable error of lint_jsonl
\* and fix_jsonl: after the line is read the pass has not raised and its list
\* holds an issue with the number of that line.
C25_NonObjectRecoverable ==
    /\ NonObjectLine(line) => (lintPc # "raised" /\ OfLine(issues, line_no) # <<>>)
    /\ (fixPos > 0 /\ NonObjectLine(fixIn[fixPos])) =>
          (fixPc # "raised" /\ OfLine(fixIssues, fixPos) # <<>>)

\* The issues the loose mode owes one message at index i (from 0): for a
\* mapping, one E003 at .role when the role is not allowed, then one E003 at
\* .content when the key is absent, nothing when the content is a string, a
\* list or a mapping, and one E012 at .content otherwise.
LooseOutcome(m, i) ==
    IF m.t # "dict" THEN <<Issue("ERROR", "E003_SCHEMA_MISMATCH", 1, "s", MsgPath(i))>>
    ELSE (IF "role" \in DOMAIN m.v /\ m.v["role"] \in ALLOWED_ROLES THEN <<>>
          ELSE <<Issue("ERROR", "E003_SCHEMA_MISMATCH", 1, "s", MsgPath(i) \o ".role")>>)
         \o (IF "content" \notin DOMAIN m.v
             THEN <<Issue("ERROR", "E003_SCHEMA_MISMATCH", 1, "s", MsgPath(i) \o ".content")>>
             ELSE IF m.v["content"].t \in {"str", "list", "dict"} THEN <<>>
             ELSE <<Issue("ERROR", "E012_BAD_FIELD_TYPE", 1, "s", MsgPath(i) \o ".content")>>)

RECURSIVE LooseOutcomes(_, _)
LooseOutcomes(msgs, i) ==
    IF i >= Len(msgs) THEN <<>> ELSE LooseOutcome(msgs[i + 1], i) \o LooseOutcomes(msgs, i + 1)

\* C26: the loose mode returns, for every list of messages, exactly the issues
\* owed to each message in order: an invalid role gives E003 at .role and the
\* content is still checked; an absent content gives E003 at .content; a
\* content that is null, a number or a boolean gives one E012 at .content; the
\* elements of a list content give nothing.
C26_LooseSchema ==
    /\ schemaPc # "raised"
    /\ schemaPc = "returned" => schemaIssues = LooseOutcomes(schemaMsgs, 0)

\* C26 holds of every list in which no mapping message has a role that is a
\* list or a mapping.
Lemma_LooseSchemaHashableRoles ==
    schemaPc = "returned" => schemaIssues = LooseOutcomes(schemaMsgs, 0)

\* C27: with an expected size, a row gets exactly one E201_IMAGE_SIZE_MISMATCH
\* (an ERROR with the row's number) iff its size resolves and differs from the
\* expectation in width or in height; a row whose size does not resolve gets
\* none; without an expected size no row gets one.
C27_SizeExpectation ==
    [][RowStep =>
         LET size == SizeByPriority(row', dsCfg.features)
             e == dsCfg.expect_size
             e201 == WithCode(Appended, "E201_IMAGE_SIZE_MISMATCH")
             differs == size # <<>> /\ (size[1] # e[1] \/ size[2] # e[2])
         IN
         /\ Len(e201) = IF e # <<>> /\ differs THEN 1 ELSE 0
         /\ \A k \in 1..Len(e201) : e201[k].line = row_no' /\ e201[k].level = "ERROR"]_vars

\* A row of width 512, the expected width, and height 480 has got the issue.
C27_Witness ==
    /\ dsPc = "running" /\ row_no >= 1
    /\ dsCfg.expect_size = <<512, 512>>
    /\ SizeByPriority(row, dsCfg.features) = <<512, 480>>
    /\ Len(WithCode(dsIssues, "E201_IMAGE_SIZE_MISMATCH")) = 1

\* The record verify read last has a list of mappings as messages and the
\* trimmed join of its system texts is empty, so the visibility test is off.
VisibilitySuppressed ==
    /\ IsRecordLine(verLine) /\ IsList(MessagesOf(verLine))
    /\ \A i \in 1..Len(MessagesOf(verLine).v) : IsDict(MessagesOf(verLine).v[i])
    /\ Strip(JoinNL(SystemTextsOf(MessagesOf(verLine).v))) = <<>>

\* C28: in verify, under a profile with require_system, a record of mapping
\* messages whose trimmed system text is empty carries E002_SYSTEM_REQUIRED or
\* E002_SYSTEM_EMPTY from the presence check, and no visibility issue.
C28_EmptySystemNeverSilent ==
    (VisibilitySuppressed /\ verCfg.profile_obj.require_system) =>
        /\ \E k \in 1..Len(VerRecIssues) :
              VerRecIssues[k].code \in {"E002_SYSTEM_REQUIRED", "E002_SYSTEM_EMPTY"}
        /\ WithCode(VerRecIssues, "E002_SYSTEM_NOT_VISIBLE") = <<>>

\* Verify has rendered a record whose only system message is blank, and the
\* record carries E002_SYSTEM_EMPTY.
C28_Witness ==
    /\ VisibilitySuppressed /\ verCfg.profile_obj.require_system
    /\ verCfg.profile_obj.system_visible /\ renderCalls = 1 /\ verPc = "running"
    /\ SystemTextsOf(MessagesOf(verLine).v) = <<<<" ">>>>
    /\ WithCode(VerRecIssues, "E002_SYSTEM_EMPTY") # <<>>

RECURSIVE SumCounts(_)
SumCounts(seen) == IF seen = <<>> THEN 0 ELSE Head(seen)[2] + SumCounts(Tail(seen))

\* The rows of the current split whose size does not resolve.
UnsizedRows == {i \in 1..row_no : SizeByPriority(CurrentSplit.rows[i], dsCfg.features) = <<>>}

\* C30: within a split the size table counts exactly the rows of that split
\* whose size resolves, each size with the number of its rows, and every
\* other row of the split got one row-level W202_IMAGE_SIZE_UNKNOWN when it was
\* read: counts + unknown rows = rows.  The table is empty when a split starts.
C30_SplitTally ==
    /\ [](dsPc \in {"running", "split done"} =>
            /\ SumCounts(seen_sizes) + Cardinality(UnsizedRows) = row_no
            /\ \A i \in 1..Len(seen_sizes) :
                  seen_sizes[i][2] = Cardinality(RowsOfSize(seen_sizes[i][1]))
            /\ row_no = 0 => seen_sizes = <<>>)
    /\ [][RowStep =>
            /\ Len(WithCode(Appended, "W202_IMAGE_SIZE_UNKNOWN"))
                  = IF row_no' \in UnsizedRows' THEN 1 ELSE 0
            /\ SumCounts(seen_sizes') - SumCounts(seen_sizes)
                  = IF row_no' \in UnsizedRows' THEN 0 ELSE 1]_vars

\* The second split has ended with one row of unknown size and an empty
\* table, after a first split whose row had a size.
C30_Witness ==
    /\ dsPc = "split done" /\ Len(ds) = 2
    /\ Len(ds[1].rows) = 1 /\ SizeByPriority(ds[1].rows[1], dsCfg.features) # <<>>
    /\ row_no = 1 /\ UnsizedRows = {1}
    /\ seen_sizes = <<>>

============================================================================
